---------------------------- MODULE Spec2Model ----------------------------
(***************************************************************************)
(* A model of the falling-sand engine: the particle cell, the tile (Chunk) *)
(* with its dirty rectangle, the cellular-automaton rules, the World with  *)
(* its streaming around the player, and the four-phase parallel scheduler. *)
(*                                                                         *)
(* Numbers.  Floats are modelled in fixed point: velocities in 1/1000 of a *)
(* cell per second, a frame's dt in milliseconds, a sample of dist(gen) in *)
(* 1/1000, a material property in 1/100, a player position in 1/POS_SCALE  *)
(* of a cell.  The tile edge CHUNK_SIZE (64 in Chunk.cpp:9) is scaled down *)
(* so that whole tiles can be enumerated; no rule depends on its value.    *)
(***************************************************************************)
EXTENDS Integers, Sequences, FiniteSets, TLC

\* ------------------------------------------------------------------ bounds
\* Edge of a tile in cells (Chunk::CHUNK_SIZE, 64 in the source, scaled).
CHUNK_SIZE == 4
\* World coordinates range over -MaxWorld .. MaxWorld in the coordinate check.
MaxWorld == 9
\* Calls of Update in a run of the single tile.
MaxFrames == 4
\* Calls of SetParticle, MarkDirty and ClearDirty in a run of the single tile.
MaxCalls == 2
\* A player position is held in 1/POS_SCALE of a cell.
POS_SCALE == 2
\* Calls of Update in a run of the rules on a tile of any material.
MaxRuleFrames == 1
\* Calls of Update, and of MarkDirty between them, in the runs of fire and wood.
MaxFireFrames == 2
MaxFireCalls == 1
\* Calls of SetParticle, MarkDirty and ClearDirty in the runs of the dirty rect.
MaxDirtyCalls == 3
\* Calls of MoveParticle in a run of the movement primitive.
MaxMoves == 1
\* Threads that call the World API at once.
MaxCallers == 3
\* Threads that call the World API while World::Update runs.
MaxThreads == 2
\* Cells set around a fire before the tile is updated.
MaxFuel == 3
\* Calls of World::Update in a run of the world.
MaxWorldFrames == 2
\* Calls of World::SetParticle and of the generator in a run of the world.
MaxPaints == 2

\* ------------------------------------------------------ program constants
\* GRAVITY = 9.8f, in 1/1000.
GRAVITY == 9800
\* The lift of a gas, 3.0f, in 1/1000.
GAS_LIFT == 3000
\* World::m_ChunkLoadRadius
m_ChunkLoadRadius == 3
\* Phases of UpdateChunksMultiThreaded.
PHASES == 4

\* --------------------------------------------------------- C++ arithmetic
\* int / int with a positive divisor: truncation toward zero.
CDiv(a, b) == IF a >= 0 THEN a \div b ELSE -((-a) \div b)
\* int % int: the remainder of the truncating division (sign of the dividend).
CMod(a, b) == a - b * CDiv(a, b)
\* std::abs
Abs(a) == IF a < 0 THEN -a ELSE a
\* std::max / std::min
Max(a, b) == IF a < b THEN b ELSE a
Min(a, b) == IF b < a THEN b ELSE a

\* ------------------------------------------------- World: coordinate maps
\* A faulty WorldToChunkAxis: plain truncating division on both signs.
WorldToChunkAxisTrunc(w) == CDiv(w, CHUNK_SIZE)
\* World::WorldToChunkCoord, one axis.
WorldToChunkAxis(w) ==
    IF w >= 0 THEN CDiv(w, CHUNK_SIZE)
              ELSE CDiv(w - CHUNK_SIZE + 1, CHUNK_SIZE)
WorldToChunkCoord(worldX, worldY) ==
    <<WorldToChunkAxis(worldX), WorldToChunkAxis(worldY)>>
\* World::WorldToLocalCoord, one axis.
WorldToLocalAxis(w) ==
    IF w >= 0 THEN CMod(w, CHUNK_SIZE)
              ELSE CMod(CMod(w, CHUNK_SIZE) + CHUNK_SIZE, CHUNK_SIZE)
WorldToLocalCoord(worldX, worldY) ==
    <<WorldToLocalAxis(worldX), WorldToLocalAxis(worldY)>>

\* ------------------------------------------------------ Particle (cell)
\* Particle(uint8_t material): velocity, lifetime and flags start at 0.
Particle(material) ==
    [materialID |-> material, velocityX |-> 0, velocityY |-> 0,
     lifetime |-> 0, flags |-> 0]
\* Particle(): the empty cell.
EmptyParticle == Particle(0)
\* Particle::IsEmpty
ParticleIsEmpty(p) == p.materialID = 0

\* ------------------------------------------------------ Material registry
\* One row of MaterialDatabase::Initialize; the defaults are those of the
\* Material(id, name) constructor and of the member initialisers.
Mat(density, viscosity, flammability, solid, liquid, gas, spread, corr) ==
    [density |-> density, viscosity |-> viscosity,
     flammability |-> flammability, isSolid |-> solid, isLiquid |-> liquid,
     isGas |-> gas, spreadFactor |-> spread, corrosiveness |-> corr]
\* The ids MaterialDatabase::Initialize registers.
RegisteredIds == 0 .. 10
\* Whether MaterialDatabase::GetMaterial throws: `m_Materials.at(id)` on an
\* id that is no key of the map throws std::out_of_range.
GetMaterialThrows(id) == id \notin RegisteredIds
\* MaterialDatabase::GetMaterial on a registered id (properties in 1/100).
GetMaterial(id) ==
    CASE id = 0  -> Mat(0,   0,  0,  FALSE, FALSE, FALSE, 100, 0)
      [] id = 1  -> Mat(150, 0,  0,  TRUE,  FALSE, FALSE, 100, 0)
      [] id = 2  -> Mat(100, 70, 0,  FALSE, TRUE,  FALSE, 400, 0)
      [] id = 3  -> Mat(250, 0,  0,  TRUE,  FALSE, FALSE, 100, 0)
      [] id = 4  -> Mat(20,  0,  100, FALSE, FALSE, FALSE, 100, 0)
      [] id = 5  -> Mat(80,  0,  70, TRUE,  FALSE, FALSE, 100, 0)
      [] id = 6  -> Mat(130, 0,  95, TRUE,  FALSE, FALSE, 100, 0)
      [] id = 7  -> Mat(110, 60, 0,  FALSE, TRUE,  FALSE, 350, 80)
      [] id = 8  -> Mat(85,  80, 85, FALSE, TRUE,  FALSE, 300, 0)
      [] id = 9  -> Mat(10,  0,  0,  FALSE, FALSE, TRUE,  100, 0)
      [] id = 10 -> Mat(140, 0,  0,  TRUE,  FALSE, FALSE, 100, 0)

\* ------------------------------------------------------------------- Rect
\* Rect(): the empty rectangle.
EmptyRect == [x |-> 0, y |-> 0, width |-> 0, height |-> 0]
Rect(x, y, width, height) == [x |-> x, y |-> y, width |-> width, height |-> height]
\* Rect::IsEmpty
RectIsEmpty(r) == r.width <= 0 \/ r.height <= 0
\* A faulty RectExpandX: growing left adds one column more than the
\* distance to the point.
RectExpandXWide(r, px) ==
    IF px < r.x THEN [r EXCEPT !.width = r.width + (r.x - px) + 1, !.x = px]
    ELSE IF px >= r.x + r.width THEN [r EXCEPT !.width = px - r.x + 1]
    ELSE r
\* Rect::Expand, the test on _x.
RectExpandX(r, px) ==
    IF px < r.x THEN [r EXCEPT !.width = r.width + (r.x - px), !.x = px]
    ELSE IF px >= r.x + r.width THEN [r EXCEPT !.width = px - r.x + 1]
    ELSE r
\* Rect::Expand, the test on _y.
RectExpandY(r, py) ==
    IF py < r.y THEN [r EXCEPT !.height = r.height + (r.y - py), !.y = py]
    ELSE IF py >= r.y + r.height THEN [r EXCEPT !.height = py - r.y + 1]
    ELSE r
\* A faulty RectExpand: growing left or up moves the origin and keeps the
\* width or the height.
RectExpandKeepsSize(r, px, py) ==
    LET rx == IF px < r.x THEN [r EXCEPT !.x = px]
              ELSE IF px >= r.x + r.width THEN [r EXCEPT !.width = px - r.x + 1]
              ELSE r
    IN  IF py < rx.y THEN [rx EXCEPT !.y = py]
        ELSE IF py >= rx.y + rx.height THEN [rx EXCEPT !.height = py - rx.y + 1]
        ELSE rx
\* Rect::Expand
RectExpand(r, px, py) == RectExpandY(RectExpandX(r, px), py)
\* Whether the rectangle covers the cell (px, py).
RectContains(r, px, py) ==
    /\ r.x <= px /\ px < r.x + r.width
    /\ r.y <= py /\ py < r.y + r.height

\* ------------------------------------------------------------------ Chunk
Cells == 0 .. (CHUNK_SIZE - 1)
\* Chunk::FlattenIndex
FlattenIndex(x, y) == y * CHUNK_SIZE + x
\* Chunk::Chunk: every cell empty, the dirty rect cleared.
NewChunk(coord) ==
    [m_ChunkCoord |-> coord,
     m_Grid |-> [i \in 0 .. (CHUNK_SIZE * CHUNK_SIZE - 1) |-> EmptyParticle],
     m_DirtyRect |-> EmptyRect]
\* Chunk::IsInBounds
ChunkIsInBounds(x, y) == x >= 0 /\ x < CHUNK_SIZE /\ y >= 0 /\ y < CHUNK_SIZE
\* Chunk::GetParticle: the static empty particle when out of bounds.
ChunkGetParticle(chunk, x, y) ==
    IF ~ChunkIsInBounds(x, y) THEN EmptyParticle
    ELSE chunk.m_Grid[FlattenIndex(x, y)]
\* Chunk::IsDirty
ChunkIsDirty(chunk) == ~RectIsEmpty(chunk.m_DirtyRect)
\* Chunk::MarkDirty
ChunkMarkDirty(chunk, x, y) ==
    IF ~ChunkIsInBounds(x, y) THEN chunk
    ELSE IF RectIsEmpty(chunk.m_DirtyRect)
         THEN [chunk EXCEPT !.m_DirtyRect = Rect(x, y, 1, 1)]
         ELSE [chunk EXCEPT !.m_DirtyRect = RectExpand(chunk.m_DirtyRect, x, y)]
\* Chunk::ClearDirty
ChunkClearDirty(chunk) == [chunk EXCEPT !.m_DirtyRect = EmptyRect]
\* Chunk::SetParticle
ChunkSetParticle(chunk, x, y, particle) ==
    IF ~ChunkIsInBounds(x, y) THEN chunk
    ELSE ChunkMarkDirty([chunk EXCEPT !.m_Grid[FlattenIndex(x, y)] = particle], x, y)

\* ------------------------------------------------ Chunk::Save / Chunk::Load
\* The i-th byte of the object representation of a 32-bit value (two's
\* complement, low byte first).  A float is stood for by its fixed-point
\* value: Save and Load copy its bytes and never look at them.
ByteOf(v, i) == (v \div (256 ^ i)) % 256
\* `file.write(reinterpret_cast<const char*>(&v), 4)`
Int32Bytes(v) == <<ByteOf(v, 0), ByteOf(v, 1), ByteOf(v, 2), ByteOf(v, 3)>>
\* A faulty Int32FromBytes: the top byte is dropped.
Int32FromBytesShort(b) == b[1] + 256 * b[2] + 65536 * b[3]
\* The value of the four bytes a read left in an int or a float.
Int32FromBytes(b) ==
    b[1] + 256 * b[2] + 65536 * b[3]
         + 16777216 * (IF b[4] >= 128 THEN b[4] - 256 ELSE b[4])
\* The value of the four bytes a read left in a uint32_t.
Uint32FromBytes(b) == b[1] + 256 * b[2] + 65536 * b[3] + 16777216 * b[4]
\* The five writes of Chunk::Save for one particle: 1 + 4 + 4 + 4 + 4 bytes.
ParticleBytes(p) ==
    <<p.materialID>> \o Int32Bytes(p.velocityX) \o Int32Bytes(p.velocityY)
        \o Int32Bytes(p.lifetime) \o Int32Bytes(p.flags)
\* The loop of Chunk::Save over m_Grid, from the i-th particle on.
RECURSIVE GridBytes(_, _)
GridBytes(grid, i) ==
    IF i >= CHUNK_SIZE * CHUNK_SIZE THEN <<>>
    ELSE ParticleBytes(grid[i]) \o GridBytes(grid, i + 1)
\* Chunk::Save: the bytes of the file it writes.
ChunkSave(chunk) ==
    Int32Bytes(chunk.m_ChunkCoord[1]) \o Int32Bytes(chunk.m_ChunkCoord[2])
        \o GridBytes(chunk.m_Grid, 0)
\* `file.read(reinterpret_cast<char*>(&v), n)` after pos bytes were read:
\* the bytes of v after it.  Past the end of the file the read fails and
\* the remaining bytes of v keep what they held (old).
ReadBytes(file, pos, old) ==
    [k \in 1 .. Len(old) |-> IF pos + k <= Len(file) THEN file[pos + k] ELSE old[k]]
\* The five reads of Chunk::Load for one particle, after pos bytes were read.
ParticleRead(file, pos, old) ==
    [materialID |-> ReadBytes(file, pos, <<old.materialID>>)[1],
     velocityX |-> Int32FromBytes(ReadBytes(file, pos + 1, Int32Bytes(old.velocityX))),
     velocityY |-> Int32FromBytes(ReadBytes(file, pos + 5, Int32Bytes(old.velocityY))),
     lifetime |-> Uint32FromBytes(ReadBytes(file, pos + 9, Int32Bytes(old.lifetime))),
     flags |-> Uint32FromBytes(ReadBytes(file, pos + 13, Int32Bytes(old.flags)))]
\* What Chunk::Load returns on a file that opened: `return true` after the
\* reads, whose state it never tests.
ChunkLoadReturns(file) == TRUE
\* Chunk::Load on an opened file: the chunk after it.
ChunkLoad(chunk, file) ==
    [m_ChunkCoord |->
        <<Int32FromBytes(ReadBytes(file, 0, Int32Bytes(chunk.m_ChunkCoord[1]))),
          Int32FromBytes(ReadBytes(file, 4, Int32Bytes(chunk.m_ChunkCoord[2])))>>,
     m_Grid |-> [i \in 0 .. (CHUNK_SIZE * CHUNK_SIZE - 1) |->
                    ParticleRead(file, 8 + 17 * i, chunk.m_Grid[i])],
     m_DirtyRect |-> Rect(0, 0, CHUNK_SIZE, CHUNK_SIZE)]

\* ------------------------------------------------------ CellularAutomata
\* The values dist(gen) is sampled at, in 1/1000 (uniform on [-1, 1)): one
\* below and one above every threshold the rules compare a sample with.
Samples == {-500, 900}
\* The k-th value a rule invocation obtains, of the sequence rnd of the
\* values handed to it; past the end of rnd the value is a placeholder, and
\* the count of values the invocation reports tells that it was used.
Draw(rnd, k) == IF k <= Len(rnd) THEN rnd[k] ELSE 0
\* The frame times handed to Update, in milliseconds.
FrameDts == {16}

\* CellularAutomata::IsInBounds
IsInBounds(chunk, x, y) == ChunkIsInBounds(x, y)
\* CellularAutomata::IsEmpty: out of bounds counts as non-empty.
IsEmpty(chunk, x, y) ==
    IF ~IsInBounds(chunk, x, y) THEN FALSE
    ELSE ParticleIsEmpty(ChunkGetParticle(chunk, x, y))
\* The result of a movement primitive: its return value and the chunk after.
Moved(ok, chunk) == [ok |-> ok, chunk |-> chunk]
\* A faulty MoveParticle: the two calls of MarkDirty are missing.
MoveParticleNoMark(chunk, srcX, srcY, destX, destY) ==
    IF ~IsInBounds(chunk, srcX, srcY) \/ ~IsInBounds(chunk, destX, destY)
    THEN Moved(FALSE, chunk)
    ELSE IF ~ParticleIsEmpty(ChunkGetParticle(chunk, destX, destY))
    THEN Moved(FALSE, chunk)
    ELSE LET src == FlattenIndex(srcX, srcY)
             dest == FlattenIndex(destX, destY)
             g1 == [chunk.m_Grid EXCEPT ![dest] = chunk.m_Grid[src]]
             g2 == [g1 EXCEPT ![src] = EmptyParticle]
         IN  Moved(TRUE, [chunk EXCEPT !.m_Grid = g2])
\* A faulty MoveParticle: the test of the destination is missing, and the
\* particle is written over whatever the destination holds.
MoveParticleOverwrites(chunk, srcX, srcY, destX, destY) ==
    IF ~IsInBounds(chunk, srcX, srcY) \/ ~IsInBounds(chunk, destX, destY)
    THEN Moved(FALSE, chunk)
    ELSE LET src == FlattenIndex(srcX, srcY)
             dest == FlattenIndex(destX, destY)
             g1 == [chunk.m_Grid EXCEPT ![dest] = chunk.m_Grid[src]]
             g2 == [g1 EXCEPT ![src] = EmptyParticle]
             c2 == [chunk EXCEPT !.m_Grid = g2]
         IN  Moved(TRUE, ChunkMarkDirty(ChunkMarkDirty(c2, srcX, srcY), destX, destY))
\* CellularAutomata::MoveParticle
MoveParticle(chunk, srcX, srcY, destX, destY) ==
    IF ~IsInBounds(chunk, srcX, srcY) \/ ~IsInBounds(chunk, destX, destY)
    THEN Moved(FALSE, chunk)
    ELSE IF ~ParticleIsEmpty(ChunkGetParticle(chunk, destX, destY))
    THEN Moved(FALSE, chunk)
    ELSE LET src == FlattenIndex(srcX, srcY)
             dest == FlattenIndex(destX, destY)
             g1 == [chunk.m_Grid EXCEPT ![dest] = chunk.m_Grid[src]]
             g2 == [g1 EXCEPT ![src] = EmptyParticle]
             c2 == [chunk EXCEPT !.m_Grid = g2]
         IN  Moved(TRUE, ChunkMarkDirty(ChunkMarkDirty(c2, srcX, srcY), destX, destY))
\* A faulty SwapParticles: `p1 = p2; p2 = p1;` with no temporary.
SwapParticlesNoTemp(chunk, x1, y1, x2, y2) ==
    IF ~IsInBounds(chunk, x1, y1) \/ ~IsInBounds(chunk, x2, y2)
    THEN Moved(FALSE, chunk)
    ELSE LET c2 == [chunk EXCEPT !.m_Grid[FlattenIndex(x1, y1)] =
                                     chunk.m_Grid[FlattenIndex(x2, y2)]]
         IN  Moved(TRUE, ChunkMarkDirty(ChunkMarkDirty(c2, x1, y1), x2, y2))
\* CellularAutomata::SwapParticles
SwapParticles(chunk, x1, y1, x2, y2) ==
    IF ~IsInBounds(chunk, x1, y1) \/ ~IsInBounds(chunk, x2, y2)
    THEN Moved(FALSE, chunk)
    ELSE LET i1 == FlattenIndex(x1, y1)
             i2 == FlattenIndex(x2, y2)
             temp == chunk.m_Grid[i1]
             g1 == [chunk.m_Grid EXCEPT ![i1] = chunk.m_Grid[i2]]
             g2 == [g1 EXCEPT ![i2] = temp]
             c2 == [chunk EXCEPT !.m_Grid = g2]
         IN  Moved(TRUE, ChunkMarkDirty(ChunkMarkDirty(c2, x1, y1), x2, y2))
\* A faulty MoveIfEmpty: a destination outside the tile counts as free, and
\* the particle moved there is gone from the tile.
MoveIfEmptyOrOutside(chunk, srcX, srcY, x, y) ==
    IF IsEmpty(chunk, x, y) THEN MoveParticle(chunk, srcX, srcY, x, y)
    ELSE IF ~IsInBounds(chunk, x, y)
    THEN Moved(TRUE, ChunkSetParticle(chunk, srcX, srcY, EmptyParticle))
    ELSE Moved(FALSE, chunk)
\* `IsEmpty(chunk, x, y) && MoveParticle(chunk, srcX, srcY, x, y)`
MoveIfEmpty(chunk, srcX, srcY, x, y) ==
    IF IsEmpty(chunk, x, y) THEN MoveParticle(chunk, srcX, srcY, x, y)
    ELSE Moved(FALSE, chunk)

\* `if (IsEmpty(a)) moved = MoveParticle(a); else if (IsEmpty(b)) moved =
\* MoveParticle(b);`
MoveToFirstEmpty(chunk, x, y, ax, ay, bx, by) ==
    IF IsEmpty(chunk, ax, ay) \/ IsEmpty(chunk, bx, by)
    THEN MoveParticle(chunk, x, y, IF IsEmpty(chunk, ax, ay) THEN ax ELSE bx,
                      IF IsEmpty(chunk, ax, ay) THEN ay ELSE by)
    ELSE Moved(FALSE, chunk)

\* CellularAutomata::ApplyGravity (velocityY += 9.8 * dt)
ApplyGravity(particle, dt) ==
    [particle EXCEPT !.velocityY = particle.velocityY + CDiv(GRAVITY * dt, 1000)]
\* CellularAutomata::UpdateVelocity
UpdateVelocity(particle, dt) ==
    LET material == GetMaterial(particle.materialID)
        dampingFactor == 1000 - material.viscosity * 5
        damped == [particle EXCEPT
                      !.velocityX = CDiv(particle.velocityX * dampingFactor, 1000),
                      !.velocityY = CDiv(particle.velocityY * dampingFactor, 1000)]
    IN  IF ~material.isGas THEN ApplyGravity(damped, dt)
        ELSE [damped EXCEPT !.velocityY = damped.velocityY - CDiv(GAS_LIFT * dt, 1000)]

\* The result of a rule: the chunk after it and how many values of rnd it
\* obtained (samples of dist(gen), and outcomes of undefined conversions).
Ruled(chunk, drawn) == [chunk |-> chunk, drawn |-> drawn]
\* The next part of a rule, Part, on the chunk the part before it left and
\* after the values that part obtained.
Then(r, x, y, rnd, Part(_, _, _, _, _)) == Part(r.chunk, x, y, rnd, r.drawn)
\* The neighbour loops `for dy in -1..1, for dx in -1..1`: the n-th pair.
NeighborDx(n) == (n % 3) - 1
NeighborDy(n) == (n \div 3) - 1
\* `base + static_cast<uint32_t>(dist(gen) * scale)` in uint32_t arithmetic,
\* the sample being the k-th value of rnd.  A negative product is outside
\* the range of uint32_t and its conversion is undefined: a build either
\* reduces it modulo 2^32 (the sum is then base + product: no base of the
\* rules is below 100, no product below -100) or saturates it to 0; the
\* next value of rnd tells which.
LifetimeFrom(base, scale, rnd, k) ==
    LET product == CDiv(Draw(rnd, k) * scale, 1000)
    IN  IF product >= 0 THEN [value |-> base + product, drawn |-> k]
        ELSE IF Draw(rnd, k + 1) > 0 THEN [value |-> base + product, drawn |-> k + 1]
        ELSE [value |-> base, drawn |-> k + 1]
\* Particle(material) with its lifetime assigned.
ParticleWithLifetime(material, lifetime) ==
    [Particle(material) EXCEPT !.lifetime = lifetime]

\* `if (!first) MoveIfEmpty(...)`: a second attempt after a first that
\* did not move the particle.
OrMoveIfEmpty(first, srcX, srcY, x, y) ==
    IF first.ok THEN first ELSE MoveIfEmpty(first.chunk, srcX, srcY, x, y)
\* A faulty DiagonalFall: the right diagonal first, whatever the coin.
DiagonalFallRightFirst(chunk, x, y, dir) ==
    OrMoveIfEmpty(MoveIfEmpty(chunk, x, y, x + 1, y + 1), x, y, x - 1, y + 1)
\* UpdateSand, the two diagonals: the one on the side dir first.
DiagonalFall(chunk, x, y, dir) ==
    OrMoveIfEmpty(MoveIfEmpty(chunk, x, y, x + dir, y + 1), x, y, x - dir, y + 1)
\* UpdateSand when the invocation has obtained k values before it.
SandFrom(chunk, x, y, rnd, k) ==
    IF IsEmpty(chunk, x, y + 1)
    THEN Ruled(MoveParticle(chunk, x, y, x, y + 1).chunk, k)
    ELSE Ruled(DiagonalFall(chunk, x, y, IF Draw(rnd, k + 1) > 0 THEN -1 ELSE 1).chunk,
               k + 1)
\* CellularAutomata::UpdateSand
UpdateSand(chunk, x, y, dt, rnd) == SandFrom(chunk, x, y, rnd, 0)

\* One lateral loop of UpdateWater / UpdateOil: `for (offset = 1; offset <=
\* spreadDistance && !moved; offset++) if (IsEmpty(x + dir * offset, y))
\* moved = MoveParticle(...)`, from the offset `offset` on.
RECURSIVE SpreadLoop(_, _, _, _, _, _)
SpreadLoop(chunk, x, y, dir, offset, spreadDistance) ==
    IF offset > spreadDistance THEN Moved(FALSE, chunk)
    ELSE IF IsEmpty(chunk, x + dir * offset, y)
    THEN MoveParticle(chunk, x, y, x + dir * offset, y)
    ELSE SpreadLoop(chunk, x, y, dir, offset + 1, spreadDistance)
\* `if (!moved) { for ... }`: the loop on the side dir after a loop that
\* did not move the particle.
OrSpreadLoop(first, x, y, dir, spreadDistance) ==
    IF first.ok THEN first ELSE SpreadLoop(first.chunk, x, y, dir, 1, spreadDistance)
\* `if (!moved) { if (IsEmpty(x - 1, y + 1)) ...; else if (IsEmpty(x + 1,
\* y + 1)) ...; }`: the diagonal flow after the two lateral loops.
OrFlowDiagonal(spread, x, y) ==
    IF spread.ok THEN spread
    ELSE MoveToFirstEmpty(spread.chunk, x, y, x - 1, y + 1, x + 1, y + 1)
\* The lateral spread and the diagonal flow shared by UpdateWater and
\* UpdateOil; the k-th value of rnd is the sample that picks the first
\* direction.
SpreadAndFlow(chunk, x, y, rnd, k, drawnBefore) ==
    LET material == GetMaterial(ChunkGetParticle(chunk, x, y).materialID)
        spreadDistance == CDiv(material.spreadFactor, 100)
        dir == IF Draw(rnd, k) > 0 THEN -1 ELSE 1
    IN  Ruled(OrFlowDiagonal(
                  OrSpreadLoop(SpreadLoop(chunk, x, y, dir, 1, spreadDistance),
                               x, y, -dir, spreadDistance),
                  x, y).chunk,
              drawnBefore + 1)
\* UpdateWater when the invocation has obtained k values before it.
WaterFrom(chunk, x, y, rnd, k) ==
    IF IsEmpty(chunk, x, y + 1)
    THEN Ruled(MoveParticle(chunk, x, y, x, y + 1).chunk, k)
    ELSE SpreadAndFlow(chunk, x, y, rnd, k + 1, k)
\* CellularAutomata::UpdateWater
UpdateWater(chunk, x, y, dt, rnd) == WaterFrom(chunk, x, y, rnd, 0)

\* UpdateFire, the dance of the flame: `if (dist(gen) < 0.3f) { ... }`.
\* `step` is the move the chain of else-ifs picks; `coin` tells that the
\* chain reached the `&& dist(gen) > 0.0f` of its second test.
FireDance(chunk, x, y, rnd, k) ==
    IF ~(Draw(rnd, k + 1) < 300) THEN Ruled(chunk, k + 1)
    ELSE LET coin == ~IsEmpty(chunk, x, y - 1) /\ IsEmpty(chunk, x - 1, y - 1)
             step == IF IsEmpty(chunk, x, y - 1) THEN <<0, -1>>
                     ELSE IF coin /\ Draw(rnd, k + 2) > 0 THEN <<-1, -1>>
                     ELSE IF IsEmpty(chunk, x + 1, y - 1) THEN <<1, -1>>
                     ELSE IF IsEmpty(chunk, x - 1, y) THEN <<-1, 0>>
                     ELSE IF IsEmpty(chunk, x + 1, y) THEN <<1, 0>>
                     ELSE <<0, 0>>
         IN  Ruled(IF step = <<0, 0>> THEN chunk
                   ELSE MoveParticle(chunk, x, y, x + step[1], y + step[2]).chunk,
                   IF coin THEN k + 2 ELSE k + 1)
\* `neighborMaterial.flammability * 0.15f`, doubled for gunpowder and
\* times 1.5 for oil, in 1/1000.
IgniteProbability(id) ==
    LET p == CDiv(GetMaterial(id).flammability * 15, 10)
    IN  IF id = 6 THEN p * 2 ELSE IF id = 8 THEN CDiv(p * 15, 10) ELSE p
\* UpdateFire, the loops that spread the fire, from the n-th neighbour on.
RECURSIVE FireSpread(_, _, _, _, _, _, _)
FireSpread(chunk, x, y, rnd, k, n, spreadAttempts) ==
    IF n > 8 \/ spreadAttempts >= 2 THEN Ruled(chunk, k)
    ELSE LET nx == x + NeighborDx(n)
             ny == y + NeighborDy(n)
             neighbor == ChunkGetParticle(chunk, nx, ny)
         IN  IF \/ n = 4
                \/ ~IsInBounds(chunk, nx, ny)
                \/ ParticleIsEmpty(neighbor)
                \/ neighbor.materialID = 4 \/ neighbor.materialID = 9
                \/ ~(GetMaterial(neighbor.materialID).flammability > 0)
             THEN FireSpread(chunk, x, y, rnd, k, n + 1, spreadAttempts)
             ELSE IF ~(Draw(rnd, k + 1) < IgniteProbability(neighbor.materialID))
             THEN FireSpread(chunk, x, y, rnd, k + 1, n + 1, spreadAttempts)
             ELSE LET lt == LifetimeFrom(100, 50, rnd, k + 2)
                      fireLifetime == lt.value
                                      + (IF neighbor.materialID = 5 THEN 100 ELSE 0)
                                      + (IF neighbor.materialID = 8 THEN 50 ELSE 0)
                      lit == ChunkSetParticle(chunk, nx, ny,
                                              ParticleWithLifetime(4, fireLifetime))
                  IN  FireSpread(lit, x, y, rnd, lt.drawn, n + 1, spreadAttempts + 1)
\* A faulty FireSmoke: the fire leaves a gunpowder (id 6) above it.
FireSmokeAsGunpowder(chunk, x, y, rnd, k) ==
    IF Draw(rnd, k + 1) < 50 /\ IsInBounds(chunk, x, y - 1)
          /\ ParticleIsEmpty(ChunkGetParticle(chunk, x, y - 1))
    THEN LET lt == LifetimeFrom(250, 150, rnd, k + 2)
         IN  Ruled(ChunkSetParticle(chunk, x, y - 1, ParticleWithLifetime(6, lt.value)),
                   lt.drawn)
    ELSE Ruled(chunk, k + 1)
\* UpdateFire, the smoke above the fire.
FireSmoke(chunk, x, y, rnd, k) ==
    IF Draw(rnd, k + 1) < 50 /\ IsInBounds(chunk, x, y - 1)
          /\ ParticleIsEmpty(ChunkGetParticle(chunk, x, y - 1))
    THEN LET lt == LifetimeFrom(250, 150, rnd, k + 2)
         IN  Ruled(ChunkSetParticle(chunk, x, y - 1, ParticleWithLifetime(9, lt.value)),
                   lt.drawn)
    ELSE Ruled(chunk, k + 1)
\* A faulty FireSpreadAll: the count of ignitions starts below 0, so that
\* the cap lets a third neighbour burn.
FireSpreadAllThree(chunk, x, y, rnd, k) == FireSpread(chunk, x, y, rnd, k, 0, -1)
\* UpdateFire, the two loops that spread the fire.
FireSpreadAll(chunk, x, y, rnd, k) == FireSpread(chunk, x, y, rnd, k, 0, 0)
\* CellularAutomata::UpdateFire
UpdateFire(chunk, x, y, dt, rnd) ==
    LET i == FlattenIndex(x, y)
        particle == chunk.m_Grid[i]
    IN  IF particle.lifetime > 0
        THEN LET aged == [chunk EXCEPT !.m_Grid[i].lifetime = particle.lifetime - 1]
             IN  Then(Then(FireDance(aged, x, y, rnd, 0), x, y, rnd, FireSpreadAll),
                      x, y, rnd, FireSmoke)
        ELSE IF Draw(rnd, 1) < 600
        THEN LET lt == LifetimeFrom(200, 150, rnd, 2)
             IN  Ruled(ChunkSetParticle(chunk, x, y, ParticleWithLifetime(9, lt.value)),
                       lt.drawn)
        ELSE Ruled(ChunkSetParticle(chunk, x, y, EmptyParticle), 1)

\* UpdateGas, `if (!moved) { ... }` after the diagonal attempt `up` and k
\* values: the two horizontal neighbours, in the order the next value picks.
GasSideways(up, x, y, rnd, k) ==
    IF up.ok THEN Ruled(up.chunk, k)
    ELSE LET dir == IF Draw(rnd, k + 1) > 0 THEN -1 ELSE 1
         IN  Ruled(MoveToFirstEmpty(up.chunk, x, y, x + dir, y, x - dir, y).chunk, k + 1)
\* UpdateGas when the invocation has obtained k values before it.
GasFrom(chunk, x, y, rnd, k) ==
    IF IsEmpty(chunk, x, y - 1)
    THEN Ruled(MoveParticle(chunk, x, y, x, y - 1).chunk, k)
    ELSE LET dir == IF Draw(rnd, k + 1) > 0 THEN -1 ELSE 1
         IN  GasSideways(MoveToFirstEmpty(chunk, x, y, x + dir, y - 1, x - dir, y - 1),
                         x, y, rnd, k + 1)
\* CellularAutomata::UpdateGas
UpdateGas(chunk, x, y, dt, rnd) == GasFrom(chunk, x, y, rnd, 0)

\* CellularAutomata::UpdateSmoke
UpdateSmoke(chunk, x, y, dt, rnd) ==
    LET i == FlattenIndex(x, y)
        particle == chunk.m_Grid[i]
        lt == IF particle.lifetime > 0
              THEN [value |-> particle.lifetime - 1, drawn |-> 0]
              ELSE LifetimeFrom(300, 200, rnd, 1)
        aged == [chunk EXCEPT !.m_Grid[i].lifetime = lt.value]
        fades == lt.value < 30
    IN  IF fades /\ Draw(rnd, lt.drawn + 1) < 100
        THEN Ruled(ChunkSetParticle(aged, x, y, EmptyParticle), lt.drawn + 1)
        ELSE GasFrom(aged, x, y, rnd, IF fades THEN lt.drawn + 1 ELSE lt.drawn)

\* Whether a cell next to (x, y), inside the chunk, holds the material id.
NearMaterial(chunk, x, y, id) ==
    \E n \in (0 .. 8) \ {4} :
        /\ IsInBounds(chunk, x + NeighborDx(n), y + NeighborDy(n))
        /\ ChunkGetParticle(chunk, x + NeighborDx(n), y + NeighborDy(n)).materialID = id
\* UpdateGunpowder, the loops after the ignition, from the n-th neighbour
\* on: an empty neighbour becomes smoke or fire.
RECURSIVE GunpowderBlast(_, _, _, _, _, _)
GunpowderBlast(chunk, x, y, rnd, k, n) ==
    IF n > 8 THEN Ruled(chunk, k)
    ELSE LET nx == x + NeighborDx(n)
             ny == y + NeighborDy(n)
         IN  IF n = 4 \/ ~IsInBounds(chunk, nx, ny)
                \/ ~ParticleIsEmpty(ChunkGetParticle(chunk, nx, ny))
             THEN GunpowderBlast(chunk, x, y, rnd, k, n + 1)
             ELSE IF ~(Draw(rnd, k + 1) < 400)
             THEN GunpowderBlast(chunk, x, y, rnd, k + 1, n + 1)
             ELSE IF Draw(rnd, k + 2) > 0
             THEN GunpowderBlast(ChunkSetParticle(chunk, nx, ny, Particle(9)),
                                 x, y, rnd, k + 2, n + 1)
             ELSE LET lt == LifetimeFrom(100, 50, rnd, k + 3)
                  IN  GunpowderBlast(
                          ChunkSetParticle(chunk, nx, ny, ParticleWithLifetime(4, lt.value)),
                          x, y, rnd, lt.drawn, n + 1)
\* CellularAutomata::UpdateGunpowder
UpdateGunpowder(chunk, x, y, dt, rnd) ==
    IF ~NearMaterial(chunk, x, y, 4) \/ ~(Draw(rnd, 1) < 800)
    THEN SandFrom(chunk, x, y, rnd, IF NearMaterial(chunk, x, y, 4) THEN 1 ELSE 0)
    ELSE LET lt == LifetimeFrom(150, 50, rnd, 2)
             lit == ChunkSetParticle(chunk, x, y, ParticleWithLifetime(4, lt.value))
         IN  GunpowderBlast(lit, x, y, rnd, lt.drawn, 0)

\* `acidMaterial.corrosiveness * (1.0f / targetMaterial.density) * 0.1f`,
\* a fifth of it for stone, in 1/1000.
DissolveProbability(id) ==
    LET p == CDiv(GetMaterial(7).corrosiveness * 100, GetMaterial(id).density)
    IN  IF id = 3 THEN CDiv(p * 2, 10) ELSE p
\* UpdateAcid, the loops over the neighbours, from the n-th on: a
\* dissolved neighbour is assigned Particle() and marked dirty.
RECURSIVE AcidDissolve(_, _, _, _, _, _)
AcidDissolve(chunk, x, y, rnd, k, n) ==
    IF n > 8 THEN Ruled(chunk, k)
    ELSE LET nx == x + NeighborDx(n)
             ny == y + NeighborDy(n)
             neighbor == ChunkGetParticle(chunk, nx, ny)
         IN  IF \/ n = 4
                \/ ~IsInBounds(chunk, nx, ny)
                \/ ParticleIsEmpty(neighbor)
                \/ neighbor.materialID = 4 \/ neighbor.materialID = 9
             THEN AcidDissolve(chunk, x, y, rnd, k, n + 1)
             ELSE IF ~(Draw(rnd, k + 1) < DissolveProbability(neighbor.materialID))
             THEN AcidDissolve(chunk, x, y, rnd, k + 1, n + 1)
             ELSE AcidDissolve(
                      ChunkMarkDirty([chunk EXCEPT !.m_Grid[FlattenIndex(nx, ny)] =
                                                       EmptyParticle], nx, ny),
                      x, y, rnd, k + 1, n + 1)
\* CellularAutomata::UpdateAcid
UpdateAcid(chunk, x, y, dt, rnd) ==
    Then(AcidDissolve(chunk, x, y, rnd, 0, 0), x, y, rnd, WaterFrom)

\* The loops of UpdateOil and UpdateSalt over the neighbours, from the n-th
\* on: each neighbour of material `id` gives one chance below `threshold`.
\* The result tells whether a chance hit and how many values were obtained.
RECURSIVE NeighborChance(_, _, _, _, _, _, _, _)
NeighborChance(chunk, x, y, rnd, k, n, id, threshold) ==
    IF n > 8 THEN [hit |-> FALSE, drawn |-> k]
    ELSE LET nx == x + NeighborDx(n)
             ny == y + NeighborDy(n)
         IN  IF n = 4 \/ ~IsInBounds(chunk, nx, ny)
                \/ ChunkGetParticle(chunk, nx, ny).materialID # id
             THEN NeighborChance(chunk, x, y, rnd, k, n + 1, id, threshold)
             ELSE IF Draw(rnd, k + 1) < threshold THEN [hit |-> TRUE, drawn |-> k + 1]
             ELSE NeighborChance(chunk, x, y, rnd, k + 1, n + 1, id, threshold)
\* Whether the cell is inside the chunk and holds water.
IsWater(chunk, x, y) ==
    IsInBounds(chunk, x, y) /\ ChunkGetParticle(chunk, x, y).materialID = 2
\* CellularAutomata::UpdateOil
UpdateOil(chunk, x, y, dt, rnd) ==
    LET ignite == NeighborChance(chunk, x, y, rnd, 0, 0, 4, 700)
        k == ignite.drawn
    IN  IF ignite.hit
        THEN LET lt == LifetimeFrom(120, 40, rnd, k + 1)
             IN  Ruled(ChunkSetParticle(chunk, x, y, ParticleWithLifetime(4, lt.value)),
                       lt.drawn)
        ELSE IF IsEmpty(chunk, x, y + 1)
        THEN Ruled(MoveParticle(chunk, x, y, x, y + 1).chunk, k)
        ELSE IF IsWater(chunk, x, y + 1)
        THEN Ruled(SwapParticles(chunk, x, y, x, y + 1).chunk, k)
        ELSE IF IsWater(chunk, x - 1, y + 1)
        THEN Ruled(SwapParticles(chunk, x, y, x - 1, y + 1).chunk, k)
        ELSE IF IsWater(chunk, x + 1, y + 1)
        THEN Ruled(SwapParticles(chunk, x, y, x + 1, y + 1).chunk, k)
        ELSE SpreadAndFlow(chunk, x, y, rnd, k + 1, k)

\* CellularAutomata::UpdateSalt
UpdateSalt(chunk, x, y, dt, rnd) ==
    LET dissolve == NeighborChance(chunk, x, y, rnd, 0, 0, 2, 50)
    IN  IF dissolve.hit
        THEN Ruled(ChunkSetParticle(chunk, x, y, EmptyParticle), dissolve.drawn)
        ELSE SandFrom(chunk, x, y, rnd, dissolve.drawn)

\* The switch of CellularAutomata::UpdateParticle on the material id, for
\* the ids MaterialDatabase::Initialize registers (each has a case of its
\* own; the default branch is reached with the other ids only).
ApplyRule(chunk, x, y, dt, rnd) ==
    LET id == ChunkGetParticle(chunk, x, y).materialID
    IN  CASE id \in {1, 3, 5} -> UpdateSand(chunk, x, y, dt, rnd)
          [] id = 2 -> UpdateWater(chunk, x, y, dt, rnd)
          [] id = 4 -> UpdateFire(chunk, x, y, dt, rnd)
          [] id = 6 -> UpdateGunpowder(chunk, x, y, dt, rnd)
          [] id = 7 -> UpdateAcid(chunk, x, y, dt, rnd)
          [] id = 8 -> UpdateOil(chunk, x, y, dt, rnd)
          [] id = 9 -> UpdateSmoke(chunk, x, y, dt, rnd)
          [] id = 10 -> UpdateSalt(chunk, x, y, dt, rnd)
          [] OTHER -> Ruled(chunk, 0)
\* `UpdateVelocity(particle, dt)` after the rule, whose result is r.
VelocityAfter(r, x, y, dt) ==
    Ruled([r.chunk EXCEPT !.m_Grid[FlattenIndex(x, y)] =
                              UpdateVelocity(r.chunk.m_Grid[FlattenIndex(x, y)], dt)],
          r.drawn)
\* Whether UpdateParticle on the cell is left by an exception: the default
\* branch of its switch calls GetMaterial on the id of the cell, before
\* anything is written.
UpdateParticleThrows(chunk, x, y) ==
    /\ ~ParticleIsEmpty(ChunkGetParticle(chunk, x, y))
    /\ GetMaterialThrows(ChunkGetParticle(chunk, x, y).materialID)
\* CellularAutomata::UpdateParticle.  `particle` is a reference to the cell
\* (x, y): the closing UpdateVelocity acts on whatever that cell holds after
\* the rule, and marks nothing dirty.
UpdateParticle(chunk, x, y, dt, rnd) ==
    IF ParticleIsEmpty(ChunkGetParticle(chunk, x, y)) THEN Ruled(chunk, 0)
    ELSE IF UpdateParticleThrows(chunk, x, y) THEN Ruled(chunk, 0)
    ELSE VelocityAfter(ApplyRule(chunk, x, y, dt, rnd), x, y, dt)
\* The sequences of values an invocation of UpdateParticle can obtain, each
\* as long as the invocation asks for: those that extend rnd.
RECURSIVE DrawSeqs(_, _, _, _, _)
DrawSeqs(chunk, x, y, dt, rnd) ==
    IF UpdateParticle(chunk, x, y, dt, rnd).drawn <= Len(rnd) THEN {rnd}
    ELSE UNION {DrawSeqs(chunk, x, y, dt, Append(rnd, s)) : s \in Samples}
RndSeqs(chunk, x, y, dt) == DrawSeqs(chunk, x, y, dt, <<>>)

\* ------------------------------------------------------------------ World
\* static_cast<int>(float) on a position held in 1/POS_SCALE of a cell:
\* the fraction is dropped, toward zero.
TruncToInt(p) == CDiv(p, POS_SCALE)
\* World::GetChunk: the chunk at coord, or <<>> for nullptr.
WorldGetChunk(chunks, coord) ==
    IF coord \in DOMAIN chunks THEN chunks[coord] ELSE <<>>
\* A faulty WorldCreateChunk: a chunk is constructed and stored whether or
\* not one is resident.
WorldCreateChunkAlways(chunks, coord) ==
    [c \in DOMAIN chunks \cup {coord} |->
        IF c = coord THEN NewChunk(coord) ELSE chunks[c]]
\* World::CreateChunk: the map after the call (the existing chunk is kept).
WorldCreateChunk(chunks, coord) ==
    IF coord \in DOMAIN chunks THEN chunks
    ELSE [c \in DOMAIN chunks \cup {coord} |->
             IF c = coord THEN NewChunk(coord) ELSE chunks[c]]
\* World::DestroyChunk
WorldDestroyChunk(chunks, coord) ==
    [c \in DOMAIN chunks \ {coord} |-> chunks[c]]
\* World::SetParticle: the map after the call.
WorldSetParticle(chunks, worldX, worldY, particle) ==
    LET chunkCoord == WorldToChunkCoord(worldX, worldY)
        localCoord == WorldToLocalCoord(worldX, worldY)
        created == IF WorldGetChunk(chunks, chunkCoord) = <<>>
                   THEN WorldCreateChunk(chunks, chunkCoord) ELSE chunks
    IN  [created EXCEPT ![chunkCoord] =
            ChunkSetParticle(created[chunkCoord], localCoord[1], localCoord[2], particle)]
\* The chunk coordinate StreamChunks and UpdateChunksAroundPlayer compute
\* from m_PlayerPosition.
PlayerChunkCoord(pos) == WorldToChunkCoord(TruncToInt(pos[1]), TruncToInt(pos[2]))
\* The square of UpdateChunksAroundPlayer's two loops.
LoadSquare(center) ==
    {<<center[1] + x, center[2] + y>> :
        x \in (-m_ChunkLoadRadius) .. m_ChunkLoadRadius,
        y \in (-m_ChunkLoadRadius) .. m_ChunkLoadRadius}
\* World::UpdateChunksAroundPlayer: GetChunk, and CreateChunk where it is null.
UpdateChunksAroundPlayer(chunks, pos) ==
    LET missing == {c \in LoadSquare(PlayerChunkCoord(pos)) :
                        WorldGetChunk(chunks, c) = <<>>}
    IN  [c \in DOMAIN chunks \cup missing |->
            IF c \in missing THEN NewChunk(c) ELSE chunks[c]]
\* The test of StreamChunks that puts a chunk on chunksToRemove.
TooFar(coord, playerChunkCoord) ==
    LET xDist == Abs(coord[1] - playerChunkCoord[1])
        yDist == Abs(coord[2] - playerChunkCoord[2])
    IN  xDist > m_ChunkLoadRadius + 2 \/ yDist > m_ChunkLoadRadius + 2
\* World::StreamChunks: the map after the call.
StreamChunks(chunks, pos) ==
    LET playerChunkCoord == PlayerChunkCoord(pos)
        loaded == UpdateChunksAroundPlayer(chunks, pos)
        chunksToRemove == {c \in DOMAIN loaded : TooFar(c, playerChunkCoord)}
    IN  [c \in DOMAIN loaded \ chunksToRemove |-> loaded[c]]
\* A faulty ChunkPhase: oddness tested as `coord % 2 == 1`, which no
\* negative coordinate satisfies.
ChunkPhaseOddIsOne(coord) ==
    LET evenX == CMod(coord[1], 2) # 1
        evenY == CMod(coord[2], 2) # 1
    IN  IF evenX /\ evenY THEN 0
        ELSE IF ~evenX /\ evenY THEN 1
        ELSE IF evenX /\ ~evenY THEN 2
        ELSE 3
\* The phase UpdateChunksMultiThreaded gives a chunk: the parities come
\* from `coord.x % 2 == 0` and `coord.y % 2 == 0`.
ChunkPhase(coord) ==
    LET evenX == CMod(coord[1], 2) = 0
        evenY == CMod(coord[2], 2) = 0
    IN  IF evenX /\ evenY THEN 0
        ELSE IF ~evenX /\ evenY THEN 1
        ELSE IF evenX /\ ~evenY THEN 2
        ELSE 3
\* ProceduralGenerator::GenerateFlat: stone below the ground level, written
\* with SetParticle (the level N/2 + 10 of 64 rows, scaled to the tile).
GROUND_LEVEL == CHUNK_SIZE \div 2 + (10 * CHUNK_SIZE) \div 64
RECURSIVE FillStone(_, _)
FillStone(chunk, i) ==
    IF i >= CHUNK_SIZE * CHUNK_SIZE THEN chunk
    ELSE LET x == i % CHUNK_SIZE
             y == i \div CHUNK_SIZE
         IN  FillStone(IF y > GROUND_LEVEL THEN ChunkSetParticle(chunk, x, y, Particle(3))
                       ELSE chunk, i + 1)
GenerateFlat(chunk) == FillStone(chunk, 0)

\* ------------------------------------------------------- Chunk::Update
\* The position of a running Chunk::Update: the loop bounds it computed from
\* the dirty rect on entry and the cell (x, y) it processes next.
Sweep(startX, startY, endX, endY, dt) ==
    [startX |-> startX, endX |-> endX, endY |-> endY,
     x |-> startX, y |-> startY, dt |-> dt]
\* Chunk::Update, the entry: the loop bounds, clamped to the chunk.
SweepOf(chunk, dt) ==
    LET r == chunk.m_DirtyRect
    IN  Sweep(Max(0, r.x), Max(0, r.y),
              Min(CHUNK_SIZE, r.x + r.width), Min(CHUNK_SIZE, r.y + r.height), dt)
\* Whether the loops of Chunk::Update have run to their end.
SweepDone(sw) == sw.y >= sw.endY \/ sw.startX >= sw.endX
\* `x++`, and `y++` at the end of a row.
SweepAdvance(sw) ==
    IF sw.x + 1 < sw.endX THEN [sw EXCEPT !.x = sw.x + 1]
    ELSE [sw EXCEPT !.x = sw.startX, !.y = sw.y + 1]
\* A faulty UpdateFinish: Update returns with the rect it swept.
UpdateFinishKeepsRect(chunk) == chunk
\* Chunk::Update, the statement after the loops.
UpdateFinish(chunk) == ChunkClearDirty(chunk)

VARIABLES
    cvIn,       \* coordinate check: the world coordinate <<wx, wy>> handed in
    cvOut,      \* coordinate check: [chunk, local] once converted, else <<>>
    tile,       \* single tile: the Chunk
    tileSweep,  \* single tile: the running Update's position, <<>> when none
    tileFrames, \* single tile: calls of Update that have returned
    tileCalls,  \* single tile: calls of SetParticle / MarkDirty / ClearDirty
    tileAtCall, \* single tile: the Chunk as it was when the last Update was called
    tileMove,   \* single tile: the last call of MoveParticle from outside Update, <<>> if none
    tileLoaded, \* single tile: whether Load has run since the last ClearDirty
    tileLast,   \* single tile: the call that returned last
    tileMarked, \* single tile: the cells set or marked since the last ClearDirty
    tileAtClear, \* single tile: m_Grid as it was at the last ClearDirty
    scenario,   \* single tile: which scenario of the specification the run follows
    m_Chunks,         \* world: the tile map, chunk coordinate -> Chunk
    m_PlayerPosition, \* world: <<x, y>> in 1/POS_SCALE of a cell
    m_ChunkMutex,     \* world: "free", or the thread that holds the mutex
    drv,              \* world: where the caller of World::Update or World::Load stands
    tasks,            \* world: the std::async tasks of the frame, in launch order
    futures,          \* world: the phase's vector of futures (indices of tasks)
    generated,        \* world: resident chunks GenerateChunk was called on
    streamCreated,    \* world: the chunks the frame's StreamChunks created
    dirtySeen,        \* world: per phase, the chunks dirty when it was reached
    worldFrames,      \* world: calls of World::Update
    worldPaints,      \* world: calls of SetParticle and of the generator
    unlockedLookups,  \* world: the operations that read m_Chunks with the mutex not held
    file,             \* codec: the bytes of the file Save wrote, "none" before
    loaded,           \* codec: the chunk Load filled, <<>> before
    directory,        \* load: the files of the world directory, coordinate of the name -> bytes
    callers,          \* api: per calling thread, the call of the World API it is in
    made              \* api: the coordinates of the chunks CreateChunk constructed, in order

cvVars == <<cvIn, cvOut>>
tileVars == <<tile, tileSweep, tileFrames, tileCalls, tileAtCall, tileMove, tileLoaded, tileLast, scenario,
              tileMarked, tileAtClear>>
worldVars == <<m_Chunks, m_PlayerPosition, m_ChunkMutex, drv, tasks, futures,
               generated, streamCreated, dirtySeen, worldFrames, worldPaints,
               unlockedLookups>>
ioVars == <<file, loaded, directory>>
apiVars == <<callers, made>>
vars == <<cvVars, tileVars, worldVars, ioVars, apiVars>>

\* The values the variables of a part keep while another part runs.
CvIdle == cvIn = <<0, 0>> /\ cvOut = <<>>
IoIdle == file = "none" /\ loaded = <<>> /\ directory = <<>>
ApiIdle == callers = <<>> /\ made = <<>>
TileIdle ==
    /\ tile = NewChunk(<<0, 0>>)
    /\ tileSweep = <<>>
    /\ tileFrames = 0
    /\ tileCalls = 0
    /\ tileAtCall = tile
    /\ tileMove = <<>>
    /\ tileLoaded = FALSE
    /\ tileLast = "new"
    /\ tileMarked = {}
    /\ tileAtClear = tile.m_Grid
    /\ scenario = "fresh"
\* World::World: no chunk, the player at the origin, nothing running.
WorldIdle ==
    /\ m_Chunks = <<>>
    /\ m_PlayerPosition = <<0, 0>>
    /\ m_ChunkMutex = "free"
    /\ drv = [pc |-> "idle", phase |-> 0, toVisit |-> {}, waiting |-> 0,
             thrown |-> FALSE]
    /\ tasks = <<>>
    /\ futures = <<>>
    /\ generated = {}
    /\ streamCreated = {}
    /\ dirtySeen = [p \in 0 .. (PHASES - 1) |-> {}]
    /\ worldFrames = 0
    /\ worldPaints = 0
    /\ unlockedLookups = {}

\* ------------------------------------------- specification: coordinates
WorldRange == (-MaxWorld) .. MaxWorld

CvInit ==
    /\ cvIn \in WorldRange \X WorldRange
    /\ cvOut = <<>>
    /\ TileIdle
    /\ WorldIdle
    /\ IoIdle
    /\ ApiIdle

\* A caller (GetParticle, SetParticle) converts the world coordinate.
CvConvert ==
    /\ cvOut = <<>>
    /\ cvOut' = [chunk |-> WorldToChunkCoord(cvIn[1], cvIn[2]),
                 local |-> WorldToLocalCoord(cvIn[1], cvIn[2])]
    /\ UNCHANGED <<cvIn, tileVars, worldVars, ioVars, apiVars>>

CvNext == CvConvert

SpecCoord == CvInit /\ [][CvNext]_vars

PaintMaterials == {0, 1, 2}
\* The column of the end-to-end scenarios (32 of 64).
MidX == CHUNK_SIZE \div 2

TileInit ==
    /\ TileIdle
    /\ CvIdle
    /\ WorldIdle
    /\ IoIdle
    /\ ApiIdle

\* The scenario a run still follows after a SetParticle(x, y, Particle(m)).
AfterSet(x, y, m) ==
    IF scenario = "fresh" /\ tileFrames = 0 /\ x = MidX /\ y = 0 /\ m = 1
    THEN "sand" ELSE "other"

\* The cells set or marked since the last ClearDirty, after a call at (x, y).
MarkedWith(x, y) ==
    IF ChunkIsInBounds(x, y) THEN tileMarked \cup {<<x, y>>} ELSE tileMarked

\* tile.SetParticle(x, y, Particle(m)), in or out of bounds.
TileSetParticle(x, y, m) ==
    /\ tileSweep = <<>>
    /\ tile' = ChunkSetParticle(tile, x, y, Particle(m))
    /\ tileCalls' = tileCalls + 1
    /\ tileLast' = "set"
    /\ scenario' = AfterSet(x, y, m)
    /\ tileMarked' = MarkedWith(x, y)
    /\ UNCHANGED <<tileSweep, tileFrames, tileAtCall, tileMove, tileLoaded, tileAtClear,
                   cvVars, worldVars, ioVars, apiVars>>

\* tile.MarkDirty(x, y)
TileMarkDirty(x, y) ==
    /\ tileSweep = <<>>
    /\ tile' = ChunkMarkDirty(tile, x, y)
    /\ tileCalls' = tileCalls + 1
    /\ tileLast' = "mark"
    /\ scenario' = CASE scenario = "sand" /\ tile' = tile -> "sand"
                      [] scenario = "firewood" -> "firewood"
                      [] OTHER -> "other"
    /\ tileMarked' = MarkedWith(x, y)
    /\ UNCHANGED <<tileSweep, tileFrames, tileAtCall, tileMove, tileLoaded, tileAtClear,
                   cvVars, worldVars, ioVars, apiVars>>

\* tile.ClearDirty()
TileClearDirty ==
    /\ tileSweep = <<>>
    /\ tile' = ChunkClearDirty(tile)
    /\ tileCalls' = tileCalls + 1
    /\ tileLast' = "clear"
    /\ scenario' = "other"
    /\ tileMarked' = {}
    /\ tileAtClear' = tile.m_Grid
    /\ tileLoaded' = FALSE
    /\ UNCHANGED <<tileSweep, tileFrames, tileAtCall, tileMove, cvVars, worldVars, ioVars, apiVars>>

\* A faulty TileUpdateCall: the dirty rect is not looked at and the whole
\* tile is swept.
TileUpdateCallSweepsAll(dt) ==
    /\ tileSweep = <<>>
    /\ tileAtCall' = tile
    /\ UNCHANGED <<tileMove, tileLoaded>>
    /\ tileSweep' = SweepOf([tile EXCEPT !.m_DirtyRect = Rect(0, 0, CHUNK_SIZE, CHUNK_SIZE)], dt)
    /\ UNCHANGED <<tile, tileFrames, tileLast, tileMarked, tileAtClear>>
    /\ UNCHANGED <<tileCalls, scenario, cvVars, worldVars, ioVars, apiVars>>

\* The first water row of the oil-on-water scenario (40 of 64) and the
\* frames it is given (60 of 64).
WaterTop == (40 * CHUNK_SIZE) \div 64
OilFrames == (60 * CHUNK_SIZE) \div 64
\* The oil floats: it lies on the cell over the first water row of the
\* scenario's column, with water under it.
OilFloats(chunk) ==
    /\ ChunkGetParticle(chunk, MidX, WaterTop - 1).materialID = 8
    /\ ChunkGetParticle(chunk, MidX, WaterTop).materialID = 2
\* The scenario a run follows after Update has returned with the tile chunk:
\* the oil-on-water scenario records that the oil was seen floating.
AfterUpdate(chunk) ==
    IF scenario = "oil" /\ OilFloats(chunk) THEN "oilFloated" ELSE scenario

\* tile.Update(dt) is called: it returns at once on an empty dirty rect,
\* and otherwise fixes its loop bounds.  With no cell in the bounds the
\* loops are skipped and the dirty rect is cleared.
TileUpdateCall(dt) ==
    /\ tileSweep = <<>>
    /\ tileAtCall' = tile
    /\ UNCHANGED tileMove
    /\ IF RectIsEmpty(tile.m_DirtyRect)
       THEN /\ tileFrames' = tileFrames + 1
            /\ tileLast' = "update"
            /\ UNCHANGED <<tile, tileSweep, tileMarked, tileLoaded, tileAtClear>>
       ELSE IF SweepDone(SweepOf(tile, dt))
       THEN /\ tile' = UpdateFinish(tile)
            /\ tileFrames' = tileFrames + 1
            /\ tileLast' = "update"
            /\ tileMarked' = {}
            /\ tileLoaded' = FALSE
            /\ tileAtClear' = tile.m_Grid
            /\ UNCHANGED tileSweep
       ELSE /\ tileSweep' = SweepOf(tile, dt)
            /\ UNCHANGED <<tile, tileFrames, tileLast, tileMarked, tileLoaded, tileAtClear>>
    /\ scenario' = IF tileSweep' = <<>> THEN AfterUpdate(tile') ELSE scenario
    /\ UNCHANGED <<tileCalls, cvVars, worldVars, ioVars, apiVars>>

\* The chunk after the body of the loops of Update has run on a cell: after
\* the last one the dirty rect is cleared.
AfterCell(chunk, last) == IF last THEN UpdateFinish(chunk) ELSE chunk

\* One iteration of the loops of Update: UpdateParticle on the next cell;
\* after the last cell the dirty rect is cleared and Update returns.
TileUpdateCell(rnd) ==
    /\ tileSweep # <<>>
    /\ tile' = AfterCell(UpdateParticle(tile, tileSweep.x, tileSweep.y,
                                        tileSweep.dt, rnd).chunk,
                         SweepDone(SweepAdvance(tileSweep)))
    /\ IF SweepDone(SweepAdvance(tileSweep))
       THEN /\ tileSweep' = <<>>
            /\ tileFrames' = tileFrames + 1
            /\ tileLast' = "update"
            /\ tileMarked' = {}
            /\ tileLoaded' = FALSE
            /\ tileAtClear' = tile'.m_Grid
       ELSE /\ tileSweep' = SweepAdvance(tileSweep)
            /\ UNCHANGED <<tileFrames, tileLast, tileMarked, tileLoaded, tileAtClear>>
    /\ scenario' = IF tileSweep' = <<>> THEN AfterUpdate(tile') ELSE scenario
    /\ UNCHANGED <<tileCalls, tileAtCall, tileMove, cvVars, worldVars, ioVars, apiVars>>

\* Coordinates handed to the tile API: the cells and one step outside.
ApiCoords == (-1) .. CHUNK_SIZE

TileNext ==
    \/ /\ tileCalls < MaxCalls
       /\ \E x \in ApiCoords, y \in ApiCoords, m \in PaintMaterials :
              TileSetParticle(x, y, m)
    \/ /\ tileCalls < MaxCalls
       /\ \E x \in ApiCoords, y \in ApiCoords : TileMarkDirty(x, y)
    \/ /\ tileCalls < MaxCalls
       /\ TileClearDirty
    \/ /\ tileFrames < MaxFrames
       /\ \E dt \in FrameDts : TileUpdateCall(dt)
    \/ /\ tileSweep # <<>>
       /\ \E rnd \in RndSeqs(tile, tileSweep.x, tileSweep.y, tileSweep.dt) :
              TileUpdateCell(rnd)

SpecTile == TileInit /\ [][TileNext]_vars

\* The cells whose material differs from what it was when Update was called.
ChangedCells ==
    {c \in Cells \X Cells :
        tile.m_Grid[FlattenIndex(c[1], c[2])].materialID
            # tileAtCall.m_Grid[FlattenIndex(c[1], c[2])].materialID}

\* C1: the sand-falls scenario.  From an empty tile with only the cell
\* (MidX, 0) set to sand, after as many consecutive calls of Update as the
\* tile has rows (64 of 64), the cell (MidX, N - 1) holds sand and every
\* cell (MidX, 0) .. (MidX, N - 2) is empty.
SandFalls ==
    (scenario = "sand" /\ tileSweep = <<>> /\ tileFrames = CHUNK_SIZE) =>
        /\ ChunkGetParticle(tile, MidX, CHUNK_SIZE - 1).materialID = 1
        /\ \A y \in 0 .. (CHUNK_SIZE - 2) :
               ParticleIsEmpty(ChunkGetParticle(tile, MidX, y))

\* C2: whenever a call of Update moved, swapped or overwrote a cell, the
\* tile is dirty when Update returns and its dirty rect contains every
\* cell changed during that call.
UpdateReExpandsDirty ==
    (tileLast = "update" /\ tileSweep = <<>> /\ ChangedCells # {}) =>
        /\ ChunkIsDirty(tile)
        /\ \A c \in ChangedCells : RectContains(tile.m_DirtyRect, c[1], c[2])

\* ------------------------------------------------ specification: the world
\* The positions SetPlayerPosition is called with: the origin, half a cell
\* left of it, and three tiles to the right.
PlayerPositions ==
    {<<0, 0>>, <<-1, 0>>, <<3 * CHUNK_SIZE * POS_SCALE, 0>>}
\* The world cells painted: the top-left cell and the bottom-left cell of
\* the tiles -2 .. 1 of the row 0.
PaintCoords ==
    {<<t * CHUNK_SIZE, y>> : t \in (-2) .. 1, y \in {0, CHUNK_SIZE - 1}}
\* The chunks the start-up code creates and hands to the generator.
GenCoords == {<<0, -4>>, <<2, -4>>}

WorldInit ==
    /\ WorldIdle
    /\ CvIdle
    /\ TileIdle
    /\ IoIdle
    /\ ApiIdle

\* World::SetPlayerPosition
SetPlayerPosition(pos) ==
    /\ drv.pc = "idle"
    /\ pos # m_PlayerPosition
    /\ m_PlayerPosition' = pos
    /\ UNCHANGED <<m_Chunks, m_ChunkMutex, drv, tasks, futures, generated,
                   streamCreated, dirtySeen, worldFrames, worldPaints,
                   unlockedLookups, cvVars, tileVars, ioVars, apiVars>>

\* World::SetParticle(worldX, worldY, Particle(1)) from the input layer,
\* between two frames.  GetChunk and CreateChunk take and release the mutex.
PaintParticle(worldX, worldY) ==
    /\ drv.pc = "idle"
    /\ m_ChunkMutex = "free"
    /\ worldPaints < MaxPaints
    /\ m_Chunks' = WorldSetParticle(m_Chunks, worldX, worldY, Particle(1))
    /\ worldPaints' = worldPaints + 1
    /\ UNCHANGED <<m_PlayerPosition, m_ChunkMutex, drv, tasks, futures, generated,
                   streamCreated, dirtySeen, worldFrames,
                   unlockedLookups, cvVars, tileVars, ioVars, apiVars>>

\* main: `chunk = world.CreateChunk(coord); generator.GenerateChunk(chunk)`,
\* for a coordinate GenerateChunk hands to GenerateFlat.
CreateAndGenerate(coord) ==
    /\ drv.pc = "idle"
    /\ m_ChunkMutex = "free"
    /\ worldPaints < MaxPaints
    /\ coord[1] >= -5 /\ coord[1] <= 5 /\ coord[2] < -3
    /\ LET created == WorldCreateChunk(m_Chunks, coord)
       IN  m_Chunks' = [created EXCEPT ![coord] = GenerateFlat(created[coord])]
    /\ generated' = generated \cup {coord}
    /\ worldPaints' = worldPaints + 1
    /\ UNCHANGED <<m_PlayerPosition, m_ChunkMutex, drv, tasks, futures,
                   streamCreated, dirtySeen, worldFrames,
                   unlockedLookups, cvVars, tileVars, ioVars, apiVars>>

\* World::Update is called: StreamChunks runs to its end (each GetChunk,
\* CreateChunk and DestroyChunk of it takes and releases the mutex), and the
\* caller enters UpdateChunksMultiThreaded with phase = 0.
StreamAndEnter ==
    /\ drv.pc = "idle"
    /\ m_ChunkMutex = "free"
    /\ worldFrames < MaxWorldFrames
    /\ m_Chunks' = StreamChunks(m_Chunks, m_PlayerPosition)
    /\ streamCreated' = DOMAIN UpdateChunksAroundPlayer(m_Chunks, m_PlayerPosition)
                            \ DOMAIN m_Chunks
    /\ generated' = generated \cap DOMAIN m_Chunks'
    /\ drv' = [pc |-> "lock", phase |-> 0, toVisit |-> {}, waiting |-> 0,
               thrown |-> FALSE]
    /\ tasks' = <<>>
    /\ futures' = <<>>
    /\ dirtySeen' = [p \in 0 .. (PHASES - 1) |-> {}]
    /\ worldFrames' = worldFrames + 1
    /\ UNCHANGED <<m_PlayerPosition, m_ChunkMutex, worldPaints,
                   unlockedLookups, cvVars, tileVars, ioVars>>
\* World::Update is called in a run with no other thread in the World API.
WorldUpdateCall == StreamAndEnter /\ UNCHANGED apiVars

\* The top of a phase: `futures` is constructed and the lock_guard takes
\* the mutex; the loop over m_Chunks starts.
PhaseLock ==
    /\ drv.pc = "lock"
    /\ m_ChunkMutex = "free"
    /\ m_ChunkMutex' = "driver"
    /\ futures' = <<>>
    /\ drv' = [drv EXCEPT !.pc = "scan", !.toVisit = DOMAIN m_Chunks]
    /\ dirtySeen' = [dirtySeen EXCEPT ![drv.phase] =
                        {c \in DOMAIN m_Chunks :
                            ChunkPhase(c) = drv.phase /\ ChunkIsDirty(m_Chunks[c])}]
    /\ UNCHANGED <<m_Chunks, m_PlayerPosition, tasks, generated, streamCreated,
                   worldFrames, worldPaints,
                   unlockedLookups, cvVars, tileVars, ioVars, apiVars>>

\* A faulty Submits: the `if (!chunk->IsDirty()) continue;` is missing.
SubmitsClean(coord, phase) == ChunkPhase(coord) = phase
\* The test of the loop body: the chunk is dirty and of the current phase.
Submits(coord, phase) ==
    /\ ChunkIsDirty(m_Chunks[coord])
    /\ ChunkPhase(coord) = phase

\* An iteration of the loop over m_Chunks that launches a task with
\* std::async.  The order of an unordered_map is unspecified; the
\* iterations that `continue` or fail the phase test change nothing and
\* are passed over with it.
PhaseSubmit(coord) ==
    /\ drv.pc = "scan"
    /\ coord \in drv.toVisit
    /\ Submits(coord, drv.phase)
    /\ tasks' = Append(tasks, [coord |-> coord, phase |-> drv.phase,
                               status |-> "launched", sweep |-> <<>>,
                               inGen |-> FALSE, threw |-> FALSE,
                               dirty |-> ChunkIsDirty(m_Chunks[coord])])
    /\ futures' = Append(futures, Len(tasks) + 1)
    /\ drv' = [drv EXCEPT !.toVisit = drv.toVisit \ {coord}]
    /\ UNCHANGED <<m_Chunks, m_PlayerPosition, m_ChunkMutex, generated,
                   streamCreated, dirtySeen, worldFrames, worldPaints,
                   unlockedLookups, cvVars, tileVars, ioVars, apiVars>>

\* The loop over m_Chunks ends: the caller goes on to wait for the futures.
PhaseScanEnd ==
    /\ drv.pc = "scan"
    /\ \A c \in drv.toVisit : ~Submits(c, drv.phase)
    /\ drv' = [drv EXCEPT !.pc = "wait", !.toVisit = {}, !.waiting = 1]
    /\ UNCHANGED <<m_Chunks, m_PlayerPosition, m_ChunkMutex, tasks, futures,
                   generated, streamCreated, dirtySeen, worldFrames, worldPaints,
                   unlockedLookups, cvVars, tileVars, ioVars, apiVars>>

\* A faulty FutureReady: the future is not waited for.
FutureReadyAtOnce(t) == TRUE
\* Whether future.wait() returns: the task has run to its end.
FutureReady(t) == tasks[t].status = "done"
\* Whether future.wait() hands the caller the exception that ended the
\* task: wait() only blocks until the result is ready; the exception stays
\* in the shared state, which the destructor of the future releases.
WaitRethrows(t) == FALSE
\* future.wait() returns for the next future of the vector.
PhaseWait ==
    /\ drv.pc = "wait"
    /\ drv.waiting <= Len(futures)
    /\ FutureReady(futures[drv.waiting])
    /\ drv' = [drv EXCEPT !.waiting = drv.waiting + 1,
                          !.thrown = drv.thrown \/ WaitRethrows(futures[drv.waiting])]
    /\ UNCHANGED <<m_Chunks, m_PlayerPosition, m_ChunkMutex, tasks, futures,
                   generated, streamCreated, dirtySeen, worldFrames, worldPaints,
                   unlockedLookups, cvVars, tileVars, ioVars, apiVars>>

\* The end of the loop body: the lock_guard releases the mutex, the vector
\* of futures is destroyed, and the next phase starts or Update returns.
PhaseEnd ==
    /\ drv.pc = "wait"
    /\ drv.waiting > Len(futures)
    /\ m_ChunkMutex' = "free"
    /\ futures' = <<>>
    /\ drv' = IF drv.phase + 1 < PHASES
              THEN [drv EXCEPT !.pc = "lock", !.phase = drv.phase + 1, !.waiting = 0]
              ELSE [drv EXCEPT !.pc = "idle", !.phase = 0, !.waiting = 0]
    /\ UNCHANGED <<m_Chunks, m_PlayerPosition, tasks, generated, streamCreated,
                   dirtySeen, worldFrames, worldPaints,
                   unlockedLookups, cvVars, tileVars, ioVars, apiVars>>

\* A faulty TaskStart: the lambda looks its chunk up with World::GetChunk
\* and so waits for the mutex before it enters chunk->Update(dt).
TaskStartLocks(t, dt) ==
    /\ tasks[t].status = "launched"
    /\ m_ChunkMutex = "free"
    /\ tasks' = [tasks EXCEPT ![t].status = "done"]
    /\ m_Chunks' = [m_Chunks EXCEPT ![tasks[t].coord] = UpdateFinish(m_Chunks[tasks[t].coord])]
    /\ UNCHANGED <<m_PlayerPosition, m_ChunkMutex, drv, futures, generated,
                   streamCreated, dirtySeen, worldFrames, worldPaints,
                   unlockedLookups, cvVars, tileVars, ioVars, apiVars>>
\* A launched task starts to run its lambda: chunk->Update(dt) is entered.
TaskStart(t, dt) ==
    /\ tasks[t].status = "launched"
    /\ LET chunk == m_Chunks[tasks[t].coord]
       IN  IF RectIsEmpty(chunk.m_DirtyRect)
           THEN /\ tasks' = [tasks EXCEPT ![t].status = "done"]
                /\ UNCHANGED m_Chunks
           ELSE IF SweepDone(SweepOf(chunk, dt))
           THEN /\ tasks' = [tasks EXCEPT ![t].status = "done"]
                /\ m_Chunks' = [m_Chunks EXCEPT ![tasks[t].coord] = UpdateFinish(chunk)]
           ELSE /\ tasks' = [tasks EXCEPT ![t].status = "running",
                                          ![t].sweep = SweepOf(chunk, dt)]
                /\ UNCHANGED m_Chunks
    /\ UNCHANGED <<m_PlayerPosition, m_ChunkMutex, drv, futures, generated,
                   streamCreated, dirtySeen, worldFrames, worldPaints,
                   unlockedLookups, cvVars, tileVars, ioVars, apiVars>>

\* Whether the rule of the task's next cell samples dist(gen).
TaskDraws(t) ==
    UpdateParticle(m_Chunks[tasks[t].coord], tasks[t].sweep.x, tasks[t].sweep.y,
                   tasks[t].sweep.dt, <<>>).drawn > 0

\* The task's rule calls dist(gen): it starts to read and advance the
\* engine `gen`, a static of CellularAutomata.cpp, with no lock.
TaskEnterGen(t) ==
    /\ tasks[t].status = "running"
    /\ ~tasks[t].inGen
    /\ TaskDraws(t)
    /\ tasks' = [tasks EXCEPT ![t].inGen = TRUE]
    /\ UNCHANGED <<m_Chunks, m_PlayerPosition, m_ChunkMutex, drv, futures,
                   generated, streamCreated, dirtySeen, worldFrames, worldPaints,
                   unlockedLookups, cvVars, tileVars, ioVars, apiVars>>

\* Whether UpdateParticle on the task's next cell is left by an exception.
TaskThrows(t) ==
    UpdateParticleThrows(m_Chunks[tasks[t].coord], tasks[t].sweep.x, tasks[t].sweep.y)

\* The exception of UpdateParticle leaves Chunk::Update, with the rest of
\* the loops and ClearDirty not run, and the lambda: the task ends and the
\* exception is stored in the shared state of its future.
TaskThrow(t) ==
    /\ tasks[t].status = "running"
    /\ TaskThrows(t)
    /\ tasks' = [tasks EXCEPT ![t].status = "done", ![t].sweep = <<>>,
                              ![t].inGen = FALSE, ![t].threw = TRUE]
    /\ UNCHANGED <<m_Chunks, m_PlayerPosition, m_ChunkMutex, drv, futures, generated,
                   streamCreated, dirtySeen, worldFrames, worldPaints,
                   unlockedLookups, cvVars, tileVars, ioVars, apiVars>>

\* One iteration of the loops of the task's Chunk::Update; after the last
\* cell the dirty rect is cleared and the task is done.
TaskCell(t, rnd) ==
    /\ tasks[t].status = "running"
    /\ ~TaskThrows(t)
    /\ TaskDraws(t) => tasks[t].inGen
    /\ m_Chunks' = [m_Chunks EXCEPT ![tasks[t].coord] =
                        AfterCell(UpdateParticle(m_Chunks[tasks[t].coord],
                                                 tasks[t].sweep.x, tasks[t].sweep.y,
                                                 tasks[t].sweep.dt, rnd).chunk,
                                  SweepDone(SweepAdvance(tasks[t].sweep)))]
    /\ tasks' = IF SweepDone(SweepAdvance(tasks[t].sweep))
                THEN [tasks EXCEPT ![t].status = "done", ![t].sweep = <<>>,
                                   ![t].inGen = FALSE]
                ELSE [tasks EXCEPT ![t].sweep = SweepAdvance(tasks[t].sweep),
                                   ![t].inGen = FALSE]
    /\ UNCHANGED <<m_PlayerPosition, m_ChunkMutex, drv, futures, generated,
                   streamCreated, dirtySeen, worldFrames, worldPaints,
                   unlockedLookups, cvVars, tileVars, ioVars, apiVars>>

\* VulkanRenderer::updateWorldTexture reads a pixel's particle with the const
\* World::GetParticle, on the thread of the main loop between two calls of
\* World::Update: m_Chunks.find(chunkCoord) with no lock_guard on
\* m_ChunkMutex.
RenderParticle ==
    /\ drv.pc = "idle"
    /\ unlockedLookups' = unlockedLookups \cup {"World::GetParticle const"}
    /\ UNCHANGED <<m_Chunks, m_PlayerPosition, m_ChunkMutex, drv, tasks, futures,
                   generated, streamCreated, dirtySeen, worldFrames, worldPaints,
                   cvVars, tileVars, ioVars, apiVars>>

WorldNext ==
    \/ RenderParticle
    \/ \E pos \in PlayerPositions : SetPlayerPosition(pos)
    \/ \E w \in PaintCoords : PaintParticle(w[1], w[2])
    \/ \E coord \in GenCoords : CreateAndGenerate(coord)
    \/ WorldUpdateCall
    \/ PhaseLock
    \/ \E coord \in DOMAIN m_Chunks : PhaseSubmit(coord)
    \/ PhaseScanEnd
    \/ PhaseWait
    \/ PhaseEnd
    \/ \E t \in DOMAIN tasks, dt \in FrameDts : TaskStart(t, dt)
    \/ \E t \in DOMAIN tasks : TaskEnterGen(t)
    \/ \E t \in {u \in DOMAIN tasks : tasks[u].status = "running"} :
           \E rnd \in RndSeqs(m_Chunks[tasks[t].coord], tasks[t].sweep.x,
                               tasks[t].sweep.y, tasks[t].sweep.dt) : TaskCell(t, rnd)

SpecWorld == WorldInit /\ [][WorldNext]_vars

\* The tasks of the frame that update the chunk at coord.
TasksOf(coord) == {t \in DOMAIN tasks : tasks[t].coord = coord}
\* The tasks that have entered Chunk::Update and not left it.
Running == {t \in DOMAIN tasks : tasks[t].status = "running"}
\* StreamChunks has just returned.
StreamReturned == drv.pc = "lock" /\ drv.phase = 0
\* max(|dx|, |dy|)
Chebyshev(a, b) == Max(Abs(a[1] - b[1]), Abs(a[2] - b[2]))
\* The tile the observer stands in: floor(position / N) on each axis.
ObserverTile ==
    <<m_PlayerPosition[1] \div (POS_SCALE * CHUNK_SIZE),
      m_PlayerPosition[2] \div (POS_SCALE * CHUNK_SIZE)>>

\* C3: phase disjointness.  Any two distinct tiles whose updates are
\* scheduled in the same phase, negative tile coordinates included, differ
\* by at least 2 on at least one axis: they share no edge and no corner.
PhaseDisjointness ==
    \A i \in DOMAIN tasks, j \in DOMAIN tasks :
        (tasks[i].phase = tasks[j].phase /\ tasks[i].coord # tasks[j].coord) =>
            \/ Abs(tasks[i].coord[1] - tasks[j].coord[1]) >= 2
            \/ Abs(tasks[i].coord[2] - tasks[j].coord[2]) >= 2

\* C3 witness: two tiles run in one phase, one at a negative coordinate.
PhaseDisjointnessWitness ==
    \E i \in Running, j \in Running :
        /\ tasks[i].phase = tasks[j].phase
        /\ tasks[i].coord[1] < 0
        /\ tasks[j].coord[1] >= 0

\* C4: the tile-map mutex is held only while the dirty tiles of a phase are
\* collected: never while a worker executes Update, and never while the
\* driver waits for a worker of the phase to finish.
MutexOnlyWhileCollecting ==
    m_ChunkMutex = "driver" =>
        /\ Running = {}
        /\ ~(drv.pc = "wait" /\ \E t \in DOMAIN tasks : tasks[t].status # "done")

\* C5: two updates that run concurrently never touch the same mutable
\* object; in particular no two workers are in the random generator at once.
GeneratorNotShared == Cardinality({t \in DOMAIN tasks : tasks[t].inGen}) <= 1

\* C6: phases run serially with a join between them: every update
\* submitted in a phase has completed before an update of a later phase
\* starts.
PhasesJoin ==
    \A i \in DOMAIN tasks, j \in DOMAIN tasks :
        (tasks[i].phase < tasks[j].phase /\ tasks[j].status # "launched") =>
            tasks[i].status = "done"

\* C6 witness: an update of a later phase runs after one of an earlier phase.
PhasesJoinWitness ==
    \E i \in DOMAIN tasks, j \in Running : tasks[i].phase < tasks[j].phase

\* C7: in one call of World::Update every resident tile that is dirty when
\* the scheduler reaches its phase is updated exactly once, and no tile with
\* an empty dirty rect is submitted.
DirtyUpdatedOnce ==
    /\ \A t \in DOMAIN tasks : tasks[t].dirty
    /\ \A c \in DOMAIN m_Chunks : Cardinality(TasksOf(c)) <= 1
    /\ (drv.pc = "idle" \/ drv.pc = "lock") =>
           \A p \in 0 .. (PHASES - 1) : \A c \in dirtySeen[p] :
               \E t \in TasksOf(c) : tasks[t].status = "done" /\ tasks[t].phase = p

\* C7 witness: a frame has ended in which a dirty tile was updated and a
\* resident tile of the same phase, clean, was not submitted.
DirtyUpdatedOnceWitness ==
    /\ drv.pc = "idle"
    /\ \E t \in DOMAIN tasks : \E c \in DOMAIN m_Chunks :
           /\ tasks[t].status = "done"
           /\ ChunkPhase(c) = tasks[t].phase
           /\ TasksOf(c) = {}

\* C8: the streaming envelope.  Right after StreamChunks returns, every
\* tile within Chebyshev distance R of the observer's tile is resident and
\* every resident tile is within R + 2 of it.
StreamingEnvelope ==
    StreamReturned =>
        /\ \A c \in LoadSquare(ObserverTile) : c \in DOMAIN m_Chunks
        /\ \A c \in DOMAIN m_Chunks :
               Chebyshev(c, ObserverTile) <= m_ChunkLoadRadius + 2

\* C9: every tile StreamChunks created has been handed to the generator
\* before StreamChunks returns.
StreamCreatedGenerated ==
    StreamReturned => streamCreated \subseteq generated
\* ------------------------------------------- specification: save and load
\* The coordinates of the chunks saved and of the chunks loaded into.
CodecCoords == {<<0, 0>>, <<-1, 2>>, <<-300, 70000>>}
\* The cells saved: sand at rest, a fallen grain, rising smoke, a fire with
\* a long lifetime, a vacated cell that kept a velocity, and a cell with
\* every field set.
CodecParticles ==
    {Particle(1),
     [Particle(1) EXCEPT !.velocityY = 156],
     [Particle(9) EXCEPT !.velocityY = -48, !.lifetime = 300],
     [Particle(4) EXCEPT !.lifetime = 70000],
     [Particle(0) EXCEPT !.velocityY = 156],
     [materialID |-> 255, velocityX |-> -1, velocityY |-> -70000,
      lifetime |-> 16777216, flags |-> 257]}
\* The chunks saved: one cell written with SetParticle.
CodecTiles ==
    {ChunkSetParticle(NewChunk(c), x, y, p) :
        c \in CodecCoords, x \in Cells, y \in Cells, p \in CodecParticles}

CodecInit ==
    /\ tile \in CodecTiles
    /\ tileSweep = <<>>
    /\ tileFrames = 0
    /\ tileCalls = 0
    /\ tileAtCall = tile
    /\ tileMove = <<>>
    /\ tileLoaded = (tile.m_DirtyRect = Rect(0, 0, CHUNK_SIZE, CHUNK_SIZE))
    /\ tileLast = "new"
    /\ tileMarked = {}
    /\ tileAtClear = tile.m_Grid
    /\ scenario = "other"
    /\ CvIdle
    /\ WorldIdle
    /\ IoIdle
    /\ ApiIdle

\* tile.Save(filename), the file opening.
CodecSave ==
    /\ file = "none"
    /\ file' = ChunkSave(tile)
    /\ UNCHANGED <<loaded, directory, cvVars, tileVars, worldVars, apiVars>>

\* World::Load: `chunk = make_unique<Chunk>(coord); chunk->Load(filename)`.
CodecLoad(coord) ==
    /\ file # "none"
    /\ loaded = <<>>
    /\ loaded' = ChunkLoad(NewChunk(coord), file)
    /\ UNCHANGED <<file, directory, cvVars, tileVars, worldVars, apiVars>>

CodecNext ==
    \/ CodecSave
    \/ \E coord \in CodecCoords : CodecLoad(coord)

SpecCodec == CodecInit /\ [][CodecNext]_vars

\* C11: the round trip of the codec.  For every tile T, the tile loaded
\* from the file Save(T) wrote has the coordinate of T, every field of
\* every cell equal to that of T, and the full tile as its dirty rect.
RoundTripCodec ==
    loaded # <<>> =>
        /\ loaded.m_ChunkCoord = tile.m_ChunkCoord
        /\ loaded.m_Grid = tile.m_Grid
        /\ loaded.m_DirtyRect = Rect(0, 0, CHUNK_SIZE, CHUNK_SIZE)

\* C11 witness: a tile at a negative coordinate with a cell of negative
\* velocity and a lifetime of several bytes was saved and loaded into a
\* chunk constructed at another coordinate, whose dirty rect was empty.
RoundTripCodecWitness ==
    /\ loaded # <<>>
    /\ tile.m_ChunkCoord = <<-300, 70000>>
    /\ \E i \in DOMAIN tile.m_Grid :
           tile.m_Grid[i].velocityY < 0 /\ tile.m_Grid[i].lifetime > 255
    /\ tile.m_DirtyRect # loaded.m_DirtyRect
\* --------------------------------- specification: the rules of the materials
\* The particles the tiles start with: Particle(id) of every registered
\* material, and a fire that still has a lifetime.
RuleParticles == {Particle(m) : m \in 1 .. 10} \cup {ParticleWithLifetime(4, 2)}
\* Whether every cell of the grid holds one of the materials ids.
OnlyMaterials(grid, ids) == \A i \in DOMAIN grid : grid[i].materialID \in ids
\* Whether a cell of the grid holds the material id.
HasMaterial(grid, id) == \E i \in DOMAIN grid : grid[i].materialID = id
\* The corners of the tile.
Corners == {0, CHUNK_SIZE - 1} \X {0, CHUNK_SIZE - 1}
\* The tiles with one cell set, and with two neighbouring cells set.  The
\* gunpowder next to a fire lies in a corner, where its blast reaches three
\* cells and not eight.
OneCellTiles ==
    {ChunkSetParticle(NewChunk(<<0, 0>>), a[1], a[2], p) :
        a \in Cells \X Cells, p \in RuleParticles}
TwoCellTiles ==
    {ChunkSetParticle(ChunkSetParticle(NewChunk(<<0, 0>>), z[1][1], z[1][2], z[3]),
                      z[2][1], z[2][2], z[4]) :
        z \in {w \in (Cells \X Cells) \X (Cells \X Cells) \X RuleParticles \X RuleParticles :
                   /\ Chebyshev(w[1], w[2]) = 1
                   /\ (w[3].materialID = 6 /\ w[4].materialID = 4) => w[1] \in Corners
                   /\ (w[4].materialID = 6 /\ w[3].materialID = 4) => w[2] \in Corners}}
\* The dirty rect of a tile at the start: as the calls of SetParticle left
\* it, empty as ClearDirty leaves it, or the full tile as Load leaves it.
\* The tile of a gunpowder next to a fire does not start with the full rect:
\* the sweep of the rect the two calls left updates the two cells, and not
\* every fire the blast lights.
StartRects(chunk) ==
    {chunk, ChunkClearDirty(chunk)}
        \cup (IF HasMaterial(chunk.m_Grid, 6) /\ HasMaterial(chunk.m_Grid, 4) THEN {}
              ELSE {[chunk EXCEPT !.m_DirtyRect = Rect(0, 0, CHUNK_SIZE, CHUNK_SIZE)]})

RuleInit ==
    /\ tile \in UNION {StartRects(t) : t \in OneCellTiles \cup TwoCellTiles}
    /\ tileSweep = <<>>
    /\ tileFrames = 0
    /\ tileCalls = 0
    /\ tileAtCall = tile
    /\ tileMove = <<>>
    /\ tileLoaded = (tile.m_DirtyRect = Rect(0, 0, CHUNK_SIZE, CHUNK_SIZE))
    /\ tileLast = "new"
    /\ tileMarked = IF RectIsEmpty(tile.m_DirtyRect) THEN {}
                    ELSE {c \in Cells \X Cells :
                             ~ParticleIsEmpty(ChunkGetParticle(tile, c[1], c[2]))}
    /\ tileAtClear = IF RectIsEmpty(tile.m_DirtyRect) THEN tile.m_Grid
                     ELSE NewChunk(<<0, 0>>).m_Grid
    /\ scenario = IF OnlyMaterials(tile.m_Grid, {0, 4, 5}) THEN "firewood" ELSE "other"
    /\ CvIdle
    /\ WorldIdle
    /\ IoIdle
    /\ ApiIdle

RuleNext ==
    \/ /\ tileFrames < MaxRuleFrames
       /\ \E dt \in FrameDts : TileUpdateCall(dt)
    \/ /\ tileSweep # <<>>
       /\ \E rnd \in RndSeqs(tile, tileSweep.x, tileSweep.y, tileSweep.dt) :
              TileUpdateCell(rnd)

SpecRules == RuleInit /\ [][RuleNext]_vars

\* How many cells of the grid hold the material id.
MaterialCount(grid, id) == Cardinality({i \in DOMAIN grid : grid[i].materialID = id})
\* The materials whose rules only move: sand, water, stone, wood and oil.
InertIds == {1, 2, 3, 5, 8}

\* C12: mass conservation.  For a tile in which no cell holds fire,
\* gunpowder, acid, smoke or salt when Update is called, Update preserves
\* the multiset of the material ids of the non-empty cells, at every step
\* of its sweep and on return: no particle of sand, water, stone, wood or
\* oil is created, destroyed or overwritten.
MassConservation ==
    OnlyMaterials(tileAtCall.m_Grid, InertIds \cup {0}) =>
        \A id \in RegisteredIds \ {0} :
            MaterialCount(tile.m_Grid, id) = MaterialCount(tileAtCall.m_Grid, id)

\* C12 witness: an Update has returned during which an oil cell and the
\* water cell under it changed places.
MassConservationWitness ==
    /\ tileLast = "update"
    /\ tileSweep = <<>>
    /\ OnlyMaterials(tileAtCall.m_Grid, InertIds \cup {0})
    /\ \E i \in DOMAIN tile.m_Grid :
           tileAtCall.m_Grid[i].materialID = 8 /\ tile.m_Grid[i].materialID = 2
\* C13: tile-local isolation.  A step of the update of a tile A, whatever
\* its cells hold (particles on A's border rows and columns included),
\* changes no cell and no dirty rect of any other tile, creates and removes
\* no tile, and no particle leaves A: the sand, water, stone, wood and oil
\* of A stay as many as they were.
TileLocalIsolation ==
    [][\A t \in DOMAIN tasks :
          (t \in DOMAIN tasks' /\ tasks'[t] # tasks[t]) =>
              /\ DOMAIN m_Chunks' = DOMAIN m_Chunks
              /\ \A c \in DOMAIN m_Chunks \ {tasks[t].coord} :
                     m_Chunks'[c] = m_Chunks[c]
              /\ \A id \in InertIds :
                     MaterialCount(m_Chunks'[tasks[t].coord].m_Grid, id)
                         = MaterialCount(m_Chunks[tasks[t].coord].m_Grid, id)]_vars

\* C13 witness: the update of a tile has run to its end with sand on the
\* tile's bottom row, above a tile of the map.
TileLocalIsolationWitness ==
    \E t \in DOMAIN tasks :
        /\ tasks[t].status = "done"
        /\ tasks[t].dirty
        /\ ChunkGetParticle(m_Chunks[tasks[t].coord], 0, CHUNK_SIZE - 1).materialID = 1
        /\ <<tasks[t].coord[1], tasks[t].coord[2] + 1>> \in DOMAIN m_Chunks
\* C14: empty stability.  Update on a tile whose every cell is empty,
\* whatever its dirty rect, leaves every cell unchanged at every step of
\* its sweep and returns with an empty dirty rect.
EmptyStability ==
    OnlyMaterials(tileAtCall.m_Grid, {0}) =>
        /\ tileSweep # <<>> => tile.m_Grid = tileAtCall.m_Grid
        /\ (tileLast = "update" /\ tileSweep = <<>>) =>
               /\ tile.m_Grid = tileAtCall.m_Grid
               /\ RectIsEmpty(tile.m_DirtyRect)

\* C14 witness: Update has returned from a call on an all-empty tile whose
\* dirty rect covered more than one cell.
EmptyStabilityWitness ==
    /\ tileLast = "update"
    /\ tileSweep = <<>>
    /\ OnlyMaterials(tileAtCall.m_Grid, {0})
    /\ tileAtCall.m_DirtyRect.width > 1
    /\ tileAtCall.m_DirtyRect.height > 0
\* C15: clean skip.  Update on a tile whose dirty rect is empty changes no
\* field of any cell, whatever the cells hold: unsupported sand, a fire
\* with remaining lifetime, a liquid able to flow.
CleanSkip ==
    (RectIsEmpty(tileAtCall.m_DirtyRect) /\ (tileSweep # <<>> \/ tileLast = "update")) =>
        tile.m_Grid = tileAtCall.m_Grid

\* C15 witness: Update has returned from a call on a clean tile that holds
\* a sand or water cell with an empty cell under it, or a fire with
\* remaining lifetime.
CleanSkipWitness ==
    /\ tileLast = "update"
    /\ tileFrames = 1
    /\ RectIsEmpty(tileAtCall.m_DirtyRect)
    /\ \E x \in Cells, y \in 0 .. (CHUNK_SIZE - 2) :
           /\ ChunkGetParticle(tileAtCall, x, y).materialID \in {1, 2, 4}
           /\ ChunkGetParticle(tileAtCall, x, y).materialID = 4
                  => ChunkGetParticle(tileAtCall, x, y).lifetime > 0
           /\ ParticleIsEmpty(ChunkGetParticle(tileAtCall, x, y + 1))
\* ------------------------------------------ specification: the dirty rect
\* The calls that write the dirty rect from outside Update, on a new tile:
\* SetParticle of a sand, MarkDirty and ClearDirty, in any order, at the
\* coordinates of the tile and one step outside.
DirtyNext ==
    \/ /\ tileCalls < MaxDirtyCalls
       /\ \E x \in ApiCoords, y \in ApiCoords : TileSetParticle(x, y, 1)
    \/ /\ tileCalls < MaxDirtyCalls
       /\ \E x \in ApiCoords, y \in ApiCoords : TileMarkDirty(x, y)
    \/ /\ tileCalls < MaxDirtyCalls
       /\ TileClearDirty

SpecDirty == TileInit /\ [][DirtyNext]_vars

\* C16: for any sequence of in-bounds SetParticle and MarkDirty calls since
\* the last ClearDirty, in any order of coordinates (growing left, right,
\* up or down), the dirty rect contains every coordinate set or marked.
DirtyRectContainsMarked ==
    \A c \in tileMarked : RectContains(tile.m_DirtyRect, c[1], c[2])

\* C16 witness: three cells of three columns and two rows were set or
\* marked since the last ClearDirty, the last of them by MarkDirty.
DirtyRectContainsMarkedWitness ==
    /\ tileLast = "mark"
    /\ Cardinality(tileMarked) = 3
    /\ Cardinality({c[1] : c \in tileMarked}) = 3
    /\ Cardinality({c[2] : c \in tileMarked}) = 2
\* C17: at every point of a run of SetParticle calls and rule invocations,
\* each cell whose contents (any field) differ from what they were at the
\* last ClearDirty lies inside the current dirty rect; the cells outside
\* the dirty rect are unchanged since that ClearDirty.
StableOutsideDirtyRect ==
    \A c \in Cells \X Cells :
        tile.m_Grid[FlattenIndex(c[1], c[2])] # tileAtClear[FlattenIndex(c[1], c[2])]
            => RectContains(tile.m_DirtyRect, c[1], c[2])

\* C17 witness: in the middle of a sweep a rule has written a cell outside
\* the rect the sweep started with.
StableOutsideDirtyRectWitness ==
    /\ tileSweep # <<>>
    /\ \E c \in Cells \X Cells :
           /\ ~RectContains(tileAtCall.m_DirtyRect, c[1], c[2])
           /\ tile.m_Grid[FlattenIndex(c[1], c[2])] # tileAtClear[FlattenIndex(c[1], c[2])]
\* --------------------------------------- specification: oil over water
\* The rows y .. N - 1 of the chunk filled with water by SetParticle, from
\* the cell i of the row-major order on.
RECURSIVE FillWater(_, _, _)
FillWater(chunk, y, i) ==
    IF i >= CHUNK_SIZE * CHUNK_SIZE THEN chunk
    ELSE FillWater(IF i \div CHUNK_SIZE >= y
                   THEN ChunkSetParticle(chunk, i % CHUNK_SIZE, i \div CHUNK_SIZE, Particle(2))
                   ELSE chunk, y, i + 1)
\* A new tile with the rows top .. N - 1 filled with water and one oil cell
\* set at (x, 0).
OilOverWater(x, top) ==
    ChunkSetParticle(FillWater(NewChunk(<<0, 0>>), top, 0), x, 0, Particle(8))

\* The scenario and its variants: the oil in any column, the water from any
\* row below the oil down.
OilInit ==
    /\ \E x \in Cells, top \in 2 .. (CHUNK_SIZE - 1) :
           /\ tile = OilOverWater(x, top)
           /\ scenario = IF x = MidX /\ top = WaterTop THEN "oil" ELSE "other"
    /\ tileSweep = <<>>
    /\ tileFrames = 0
    /\ tileCalls = 0
    /\ tileAtCall = tile
    /\ tileMove = <<>>
    /\ tileLoaded = (tile.m_DirtyRect = Rect(0, 0, CHUNK_SIZE, CHUNK_SIZE))
    /\ tileLast = "set"
    /\ tileMarked = {c \in Cells \X Cells :
                         ~ParticleIsEmpty(ChunkGetParticle(tile, c[1], c[2]))}
    /\ tileAtClear = NewChunk(<<0, 0>>).m_Grid
    /\ CvIdle
    /\ WorldIdle
    /\ IoIdle
    /\ ApiIdle

OilNext ==
    \/ /\ tileFrames < OilFrames
       /\ \E dt \in FrameDts : TileUpdateCall(dt)
    \/ /\ tileSweep # <<>>
       /\ \E rnd \in RndSeqs(tile, tileSweep.x, tileSweep.y, tileSweep.dt) :
              TileUpdateCell(rnd)

SpecOil == OilInit /\ [][OilNext]_vars

\* C18: the oil-on-water scenario.  With the rows WaterTop .. N - 1 (40 ..
\* 63 of 64) filled with water and a single oil cell set at (MidX, 0),
\* there is a frame k <= OilFrames (60 of 64) such that after the k-th
\* Update the cell (MidX, WaterTop - 1) is oil and the cell (MidX, WaterTop)
\* is water: once OilFrames calls have returned, the oil was seen floating.
OilOnWater ==
    (scenario \in {"oil", "oilFloated"} /\ tileSweep = <<>> /\ tileFrames = OilFrames)
        => scenario = "oilFloated"
\* ------------------------------------------ specification: fire and wood
\* The tiles of one or two cells that hold only empty, fire and wood, with
\* the dirty rect as the SetParticle calls left it or covering the tile.
\* MarkDirty between two calls of Update makes the second sweep a cell
\* again: a smoke the first left, a fire that still burns.
FireInit ==
    /\ tile \in UNION {StartRects(t) \ {ChunkClearDirty(t)} :
                        t \in {u \in OneCellTiles \cup TwoCellTiles :
                                   OnlyMaterials(u.m_Grid, {0, 4, 5})}}
    /\ tileSweep = <<>>
    /\ tileFrames = 0
    /\ tileCalls = 0
    /\ tileAtCall = tile
    /\ tileMove = <<>>
    /\ tileLoaded = (tile.m_DirtyRect = Rect(0, 0, CHUNK_SIZE, CHUNK_SIZE))
    /\ tileLast = "set"
    /\ tileMarked = {c \in Cells \X Cells :
                         ~ParticleIsEmpty(ChunkGetParticle(tile, c[1], c[2]))}
    /\ tileAtClear = NewChunk(<<0, 0>>).m_Grid
    /\ scenario = "firewood"
    /\ CvIdle
    /\ WorldIdle
    /\ IoIdle
    /\ ApiIdle

FireNext ==
    \/ /\ tileFrames < MaxFireFrames
       /\ \E dt \in FrameDts : TileUpdateCall(dt)
    \/ /\ tileSweep # <<>>
       /\ \E rnd \in RndSeqs(tile, tileSweep.x, tileSweep.y, tileSweep.dt) :
              TileUpdateCell(rnd)
    \/ /\ tileCalls < MaxFireCalls
       /\ \E x \in Cells, y \in Cells : TileMarkDirty(x, y)

SpecFire == FireInit /\ [][FireNext]_vars

\* C19: in any run of tile updates that starts from a tile containing only
\* empty, fire and wood cells, every cell in every reachable state is
\* empty, fire, smoke or wood, for every outcome of the random coins.
FireWoodClosed ==
    scenario = "firewood" => OnlyMaterials(tile.m_Grid, {0, 4, 5, 9})

\* C19 witness: in a run from fire and wood, the second Update has moved or
\* dissolved a smoke the first had left, beside a fire or a wood.
FireWoodClosedWitness ==
    /\ scenario = "firewood"
    /\ tileLast = "update"
    /\ tileFrames = 2
    /\ \E i \in DOMAIN tile.m_Grid :
           tileAtCall.m_Grid[i].materialID = 9 /\ tile.m_Grid[i].materialID # 9
    /\ HasMaterial(tile.m_Grid, 4) \/ HasMaterial(tile.m_Grid, 5)
\* C20: every access to the tile map, whether lookup, insertion, removal or
\* iteration, is performed while holding the tile-map mutex, the lookup of
\* the const GetParticle that the renderer calls included: no operation
\* has read m_Chunks with the mutex not held.
MapAccessUnderMutex == unlockedLookups = {}

\* --------------------------------- specification: the callers of the World API
\* The threads that call the World API, each for one call.
Callers == 1 .. MaxCallers
\* The world cells the calls name: the cell (0, 0) of the tile (0, 0) and the
\* last cell of the first row of the tile (-1, 0).
CallCoords == {<<0, 0>>, <<-1, 0>>}
\* The calls: CreateChunk on the cell's tile, SetParticle, and GetParticle
\* in its two forms.
ApiOps == {"CreateChunk", "SetParticle", "GetParticle", "GetParticle const"}
\* A thread that is in no call.
NoCall ==
    [op |-> "none", pc |-> "idle", worldX |-> 0, worldY |-> 0, chunk |-> 0,
     before |-> <<>>, after |-> <<>>, residentBefore |-> {}, residentAfter |-> {},
     result |-> <<>>, chunksToRemove |-> {}]
\* The Chunk* of the chunk resident at coord: the number of the construction
\* that made it (0 for nullptr).
PtrOf(constructed, coord) ==
    IF \E i \in DOMAIN constructed : constructed[i] = coord
    THEN CHOOSE i \in DOMAIN constructed :
             /\ constructed[i] = coord
             /\ \A j \in DOMAIN constructed : constructed[j] = coord => j <= i
    ELSE 0
\* The constructions after World::CreateChunk: `make_unique<Chunk>(coord)`
\* runs when the find came to the end of the map.
MadeAfterCreate(chunks, coord) ==
    IF coord \in DOMAIN chunks THEN made ELSE Append(made, coord)
\* A faulty WorldGetParticleConst: the const form creates the tile it misses.
WorldGetParticleConstCreates(chunks, worldX, worldY) ==
    [particle |-> ChunkGetParticle(
                      WorldCreateChunk(chunks, WorldToChunkCoord(worldX, worldY))
                          [WorldToChunkCoord(worldX, worldY)],
                      WorldToLocalAxis(worldX), WorldToLocalAxis(worldY)),
     chunks |-> WorldCreateChunk(chunks, WorldToChunkCoord(worldX, worldY))]
\* World::GetParticle const: the particle it returns and the map after it.
WorldGetParticleConst(chunks, worldX, worldY) ==
    [particle |-> IF WorldToChunkCoord(worldX, worldY) \in DOMAIN chunks
                  THEN ChunkGetParticle(chunks[WorldToChunkCoord(worldX, worldY)],
                                        WorldToLocalAxis(worldX), WorldToLocalAxis(worldY))
                  ELSE EmptyParticle,
     chunks |-> chunks]
\* The variables of the world a call of the API leaves alone.
worldRest == <<m_PlayerPosition, m_ChunkMutex, drv, tasks, futures, generated,
               streamCreated, dirtySeen, worldFrames, worldPaints>>
\* The tile a world starts with when it has one: the tile (0, 0) with water
\* painted in its cell (1, 0) and in its cell (0, 0).
PaintedTile ==
    ChunkSetParticle(ChunkSetParticle(NewChunk(<<0, 0>>), 1, 0, Particle(2)),
                     0, 0, Particle(2))

ApiInit ==
    /\ m_Chunks \in {<<>>, [c \in {<<0, 0>>} |-> PaintedTile]}
    /\ made = IF m_Chunks = <<>> THEN <<>> ELSE <<(<<0, 0>>)>>
    /\ callers = [c \in Callers |-> NoCall]
    /\ m_PlayerPosition = <<0, 0>>
    /\ m_ChunkMutex = "free"
    /\ drv = [pc |-> "idle", phase |-> 0, toVisit |-> {}, waiting |-> 0,
             thrown |-> FALSE]
    /\ tasks = <<>>
    /\ futures = <<>>
    /\ generated = {}
    /\ streamCreated = {}
    /\ dirtySeen = [p \in 0 .. (PHASES - 1) |-> {}]
    /\ worldFrames = 0
    /\ worldPaints = 0
    /\ unlockedLookups = {}
    /\ CvIdle
    /\ TileIdle
    /\ IoIdle

\* The tile coordinate of the call the thread c is in.
CallChunkCoord(c) == WorldToChunkCoord(callers[c].worldX, callers[c].worldY)

\* A thread enters a call: CreateChunk, DestroyChunk and StreamChunks go to
\* their bodies, SetParticle and the mutable GetParticle to their GetChunk,
\* the const GetParticle to its find.
ApiBegin(c, op, w) ==
    /\ callers[c].pc = "idle"
    /\ callers[c].op = "none"
    /\ callers' = [callers EXCEPT ![c] =
           [NoCall EXCEPT !.op = op, !.worldX = w[1], !.worldY = w[2],
                          !.pc = CASE op = "CreateChunk" -> "CreateChunk"
                                   [] op = "GetParticle const" -> "find"
                                   [] op = "DestroyChunk" -> "DestroyChunk"
                                   [] op = "StreamChunks" -> "StreamChunks"
                                   [] OTHER -> "GetChunk"]]
    /\ UNCHANGED <<m_Chunks, made, worldRest, unlockedLookups, cvVars, tileVars, ioVars>>

\* World::GetChunk, under its lock_guard: the resident chunk or nullptr.
ApiGetChunk(c) ==
    /\ callers[c].pc = "GetChunk"
    /\ m_ChunkMutex = "free"
    /\ callers' = [callers EXCEPT
           ![c].chunk = IF WorldGetChunk(m_Chunks, CallChunkCoord(c)) = <<>> THEN 0
                        ELSE PtrOf(made, CallChunkCoord(c)),
           ![c].pc = IF WorldGetChunk(m_Chunks, CallChunkCoord(c)) = <<>>
                     THEN "CreateChunk" ELSE "use"]
    /\ UNCHANGED <<m_Chunks, made, worldRest, unlockedLookups, cvVars, tileVars, ioVars>>

\* World::CreateChunk, under its lock_guard: the resident chunk if there is
\* one, else a chunk constructed and stored.
ApiCreateChunk(c) ==
    /\ callers[c].pc = "CreateChunk"
    /\ m_ChunkMutex = "free"
    /\ m_Chunks' = WorldCreateChunk(m_Chunks, CallChunkCoord(c))
    /\ made' = MadeAfterCreate(m_Chunks, CallChunkCoord(c))
    /\ callers' = [callers EXCEPT
           ![c].chunk = PtrOf(made', CallChunkCoord(c)),
           ![c].before = WorldGetChunk(m_Chunks, CallChunkCoord(c)),
           ![c].after = m_Chunks'[CallChunkCoord(c)],
           ![c].pc = IF callers[c].op = "CreateChunk" THEN "done" ELSE "use"]
    /\ UNCHANGED <<worldRest, unlockedLookups, cvVars, tileVars, ioVars>>

\* Whether the Chunk* p points to a chunk the map still owns: the chunk of
\* its coordinate is resident and is the one p was made for.  The chunk of
\* a pointer that is not alive was freed when its unique_ptr was erased.
PtrAlive(p) ==
    /\ p \in DOMAIN made
    /\ made[p] \in DOMAIN m_Chunks
    /\ PtrOf(made, made[p]) = p
\* Whether a task is inside Chunk::Update on the chunk at coord.
Updating(coord) ==
    \E t \in DOMAIN tasks : tasks[t].status = "running" /\ tasks[t].coord = coord
\* The maps `chunk->SetParticle(lx, ly, Particle(1))` through the pointer p
\* can leave.  On a chunk that is alive and that no task updates, the cell
\* is written.  A write into a freed chunk, or one that races with the
\* writes of a task, is undefined: it is lost, or it lands in the chunk
\* resident at the coordinate.
WriteOutcomes(p, lx, ly) ==
    LET coord == made[p]
        written == [m_Chunks EXCEPT ![coord] =
                        ChunkSetParticle(m_Chunks[coord], lx, ly, Particle(1))]
    IN  IF PtrAlive(p) /\ ~Updating(coord) THEN {written}
        ELSE IF coord \in DOMAIN m_Chunks THEN {written, m_Chunks}
        ELSE {m_Chunks}
\* The particles `chunk->GetParticle(lx, ly)` through the pointer p can
\* return: the cell of the chunk, and for a freed chunk whatever its memory
\* holds, here an empty cell or the cell of the chunk resident there.
ReadOutcomes(p, lx, ly) ==
    IF PtrAlive(p) THEN {ChunkGetParticle(m_Chunks[made[p]], lx, ly)}
    ELSE {EmptyParticle}
             \cup (IF made[p] \in DOMAIN m_Chunks
                   THEN {ChunkGetParticle(m_Chunks[made[p]], lx, ly)} ELSE {})
\* `chunk->SetParticle(localCoord.x, localCoord.y, particle)` of SetParticle
\* with Particle(1), and `return chunk->GetParticle(...)` of GetParticle, on
\* the chunk the pointer names, with no lock held.
ApiUse(c) ==
    /\ callers[c].pc = "use"
    /\ IF callers[c].op = "SetParticle"
       THEN /\ m_Chunks' \in WriteOutcomes(callers[c].chunk,
                                           WorldToLocalAxis(callers[c].worldX),
                                           WorldToLocalAxis(callers[c].worldY))
            /\ callers' = [callers EXCEPT ![c].pc = "done"]
       ELSE /\ \E r \in ReadOutcomes(callers[c].chunk,
                                     WorldToLocalAxis(callers[c].worldX),
                                     WorldToLocalAxis(callers[c].worldY)) :
                   callers' = [callers EXCEPT ![c].pc = "done", ![c].result = r]
            /\ UNCHANGED m_Chunks
    /\ UNCHANGED <<made, worldRest, unlockedLookups, cvVars, tileVars, ioVars>>

\* World::GetParticle const: `m_Chunks.find(chunkCoord)` with no lock_guard,
\* and the particle of the chunk found or Particle().
ApiGetConst(c) ==
    /\ callers[c].pc = "find"
    /\ m_Chunks' = WorldGetParticleConst(m_Chunks, callers[c].worldX,
                                         callers[c].worldY).chunks
    /\ callers' = [callers EXCEPT
           ![c].pc = "done",
           ![c].before = WorldGetChunk(m_Chunks, CallChunkCoord(c)),
           ![c].residentBefore = DOMAIN m_Chunks,
           ![c].residentAfter = DOMAIN m_Chunks',
           ![c].result = WorldGetParticleConst(m_Chunks, callers[c].worldX,
                                               callers[c].worldY).particle]
    /\ unlockedLookups' = unlockedLookups \cup {"World::GetParticle const"}
    /\ UNCHANGED <<made, worldRest, cvVars, tileVars, ioVars>>

ApiNext ==
    \/ \E c \in Callers, op \in ApiOps, w \in CallCoords : ApiBegin(c, op, w)
    \/ \E c \in Callers : ApiGetChunk(c)
    \/ \E c \in Callers : ApiCreateChunk(c)
    \/ \E c \in Callers : ApiUse(c)
    \/ \E c \in Callers : ApiGetConst(c)

SpecApi == ApiInit /\ [][ApiNext]_vars

\* How many chunks were constructed for the coordinate.
MadeFor(coord) == Cardinality({i \in DOMAIN made : made[i] = coord})
\* The threads whose call has handed them a Chunk*.
HoldingChunk ==
    {c \in Callers : callers[c].pc \in {"use", "done"}
                     /\ callers[c].op \in {"CreateChunk", "SetParticle", "GetParticle"}}

\* C21: CreateChunk is idempotent and the lazy creation is free of races.
\* For any interleaving of CreateChunk, SetParticle and the mutable
\* GetParticle on a coordinate, exactly one tile is created for it, every
\* caller gets that same tile, and a CreateChunk on a resident coordinate
\* returns the existing tile with its cells and dirty rect unchanged.
LazyCreationOnce ==
    /\ \A coord \in DOMAIN m_Chunks : MadeFor(coord) = 1
    /\ \A i \in DOMAIN made : made[i] \in DOMAIN m_Chunks
    /\ \A c \in HoldingChunk :
           /\ callers[c].chunk # 0
           /\ callers[c].chunk = PtrOf(made, CallChunkCoord(c))
    /\ \A c \in Callers :
           (callers[c].pc \in {"use", "done"} /\ callers[c].before # <<>>
               /\ callers[c].op # "GetParticle const") =>
               callers[c].after = callers[c].before

\* C21 witness: two threads found the same coordinate absent and both went
\* on to CreateChunk; the first constructed the tile and painted it, and
\* the CreateChunk of the second then returned that tile, dirty as it was.
LazyCreationOnceWitness ==
    \E c \in Callers, d \in Callers :
        /\ c # d
        /\ CallChunkCoord(c) = CallChunkCoord(d)
        /\ callers[c].op = "SetParticle" /\ callers[d].op = "GetParticle"
        /\ callers[c].pc = "done" /\ callers[d].pc = "done"
        /\ callers[c].before = <<>> /\ callers[c].after # <<>>
        /\ callers[d].before # <<>>
        /\ ChunkIsDirty(callers[d].before)
        /\ callers[d].chunk = callers[c].chunk


\* C24: the const GetParticle on a coordinate whose tile is absent returns
\* an empty cell and leaves the resident set unchanged, whereas SetParticle
\* and the mutable GetParticle on such a coordinate make the tile resident;
\* the const form on a resident tile returns exactly the stored cell.
ConstGetLeavesResidentSet ==
    \A c \in Callers :
        callers[c].pc = "done" =>
            /\ callers[c].op = "GetParticle const" =>
                   /\ callers[c].residentAfter = callers[c].residentBefore
                   /\ callers[c].result =
                          IF callers[c].before = <<>> THEN EmptyParticle
                          ELSE callers[c].before.m_Grid[
                                   FlattenIndex(WorldToLocalAxis(callers[c].worldX),
                                                WorldToLocalAxis(callers[c].worldY))]
            /\ callers[c].op \in {"SetParticle", "GetParticle"} =>
                   CallChunkCoord(c) \in DOMAIN m_Chunks

\* C24 witness: a const GetParticle has returned an empty cell for an absent
\* tile and left it absent; another has returned the water stored in a
\* resident tile; and a mutable GetParticle or a SetParticle on an absent
\* tile has made it resident.
ConstGetLeavesResidentSetWitness ==
    \E c \in Callers, d \in Callers, e \in Callers :
        /\ callers[c].op = "GetParticle const" /\ callers[c].pc = "done"
        /\ callers[c].before = <<>>
        /\ callers[c].result = EmptyParticle
        /\ callers[d].op = "GetParticle const" /\ callers[d].pc = "done"
        /\ callers[d].before # <<>>
        /\ callers[d].result = Particle(2)
        /\ callers[e].op \in {"SetParticle", "GetParticle"} /\ callers[e].pc = "done"
        /\ callers[e].before = <<>> /\ callers[e].after # <<>>
        /\ CallChunkCoord(e) \in DOMAIN m_Chunks


\* ------------------- specification: a world with an unregistered material
\* A tile with a cell whose material id no call of AddMaterial registered,
\* written with the one call of World::SetParticle the run starts after.
CorruptTile == ChunkSetParticle(NewChunk(<<0, 0>>), 1, 1, Particle(11))

CorruptInit ==
    /\ m_Chunks = [c \in {<<0, 0>>} |-> CorruptTile]
    /\ m_PlayerPosition = <<0, 0>>
    /\ m_ChunkMutex = "free"
    /\ drv = [pc |-> "idle", phase |-> 0, toVisit |-> {}, waiting |-> 0,
             thrown |-> FALSE]
    /\ tasks = <<>>
    /\ futures = <<>>
    /\ generated = {}
    /\ streamCreated = {}
    /\ dirtySeen = [p \in 0 .. (PHASES - 1) |-> {}]
    /\ worldFrames = 0
    /\ worldPaints = 1
    /\ unlockedLookups = {}
    /\ CvIdle
    /\ TileIdle
    /\ IoIdle
    /\ ApiIdle

CorruptNext ==
    \/ WorldNext
    \/ \E t \in DOMAIN tasks : TaskThrow(t)

SpecCorrupt == CorruptInit /\ [][CorruptNext]_vars

\* C22: a lookup of an unregistered material id fails loudly.  If during
\* World::Update a tile update processes a non-empty cell whose material id
\* is not in the registry, the failure reaches the caller of World::Update
\* instead of being silently discarded.
UnknownMaterialFailsLoudly ==
    (drv.pc = "idle" /\ \E t \in DOMAIN tasks : tasks[t].threw) => drv.thrown


\* --------------------------------------- specification: loading a world
\* The length of a tile file: 8 + 17 * N * N bytes.
FileLength == 8 + 17 * CHUNK_SIZE * CHUNK_SIZE
\* The lengths the second file of the directory is cut to: empty, inside
\* the header, the header alone, one cell, one byte short, and whole.
FileLengths == {0, 5, 8, 8 + 17, FileLength - 1, FileLength}
\* The coordinates in the names of the two files, chunk_0_0.bin and
\* chunk_1_0.bin.
FileCoords == {<<0, 0>>, <<1, 0>>}
\* The files World::Save wrote: of a tile at coord with sand in a cell of
\* its first row.
SavedFiles(coord) ==
    {ChunkSave(ChunkSetParticle(NewChunk(coord), x, 0, Particle(1))) : x \in Cells}

LoadInit ==
    /\ directory \in
           {[c \in FileCoords |-> IF c = <<0, 0>> THEN f ELSE SubSeq(g, 1, n)] :
               f \in SavedFiles(<<0, 0>>), g \in SavedFiles(<<1, 0>>), n \in FileLengths}
    /\ file = "none"
    /\ loaded = <<>>
    /\ WorldIdle
    /\ CvIdle
    /\ TileIdle
    /\ ApiIdle

\* World::Load is called on the directory: the lock_guard takes the mutex,
\* the map is cleared and the iteration over the directory starts.
WorldLoadCall ==
    /\ drv.pc = "idle"
    /\ m_ChunkMutex = "free"
    /\ m_ChunkMutex' = "loader"
    /\ m_Chunks' = <<>>
    /\ drv' = [drv EXCEPT !.pc = "load", !.toVisit = DOMAIN directory]
    /\ UNCHANGED <<m_PlayerPosition, tasks, futures, generated, streamCreated,
                   dirtySeen, worldFrames, worldPaints, unlockedLookups,
                   cvVars, tileVars, ioVars, apiVars>>

\* An iteration of the loop over the directory, in the unspecified order of
\* directory_iterator: a chunk is constructed at the coordinate of the name
\* and stored if its Load returns true.
WorldLoadFile(coord) ==
    /\ drv.pc = "load"
    /\ coord \in drv.toVisit
    /\ m_Chunks' = IF ChunkLoadReturns(directory[coord])
                   THEN [c \in DOMAIN m_Chunks \cup {coord} |->
                            IF c = coord THEN ChunkLoad(NewChunk(coord), directory[coord])
                            ELSE m_Chunks[c]]
                   ELSE m_Chunks
    /\ drv' = [drv EXCEPT !.toVisit = drv.toVisit \ {coord}]
    /\ UNCHANGED <<m_PlayerPosition, m_ChunkMutex, tasks, futures, generated,
                   streamCreated, dirtySeen, worldFrames, worldPaints, unlockedLookups,
                   cvVars, tileVars, ioVars, apiVars>>

\* The loop over the directory ends and World::Load returns.
WorldLoadEnd ==
    /\ drv.pc = "load"
    /\ drv.toVisit = {}
    /\ m_ChunkMutex' = "free"
    /\ drv' = [drv EXCEPT !.pc = "loaded"]
    /\ UNCHANGED <<m_Chunks, m_PlayerPosition, tasks, futures, generated,
                   streamCreated, dirtySeen, worldFrames, worldPaints, unlockedLookups,
                   cvVars, tileVars, ioVars, apiVars>>

LoadNext ==
    \/ WorldLoadCall
    \/ \E coord \in FileCoords : WorldLoadFile(coord)
    \/ WorldLoadEnd

SpecLoad == LoadInit /\ [][LoadNext]_vars

\* C23: World::Load skips bad tile files.  A tile file that cannot be read
\* in full (shorter than 8 + 17 * N * N bytes) makes the tile load fail,
\* and that tile is not added to the resident set while the other files
\* are still loaded.
LoadSkipsShortFiles ==
    drv.pc = "loaded" =>
        \A c \in DOMAIN directory :
            IF Len(directory[c]) < FileLength THEN c \notin DOMAIN m_Chunks
            ELSE c \in DOMAIN m_Chunks


\* ------------------------- specification: the world, with its threads run
\* A step of a call of World::Update in progress: of its caller or of one
\* of the tasks it launched.
FrameStep ==
    \/ PhaseLock
    \/ \E coord \in DOMAIN m_Chunks : PhaseSubmit(coord)
    \/ PhaseScanEnd
    \/ PhaseWait
    \/ PhaseEnd
    \/ \E t \in DOMAIN tasks, dt \in FrameDts : TaskStart(t, dt)
    \/ \E t \in DOMAIN tasks : TaskEnterGen(t)
    \/ \E t \in {u \in DOMAIN tasks : tasks[u].status = "running"} :
           \E rnd \in RndSeqs(m_Chunks[tasks[t].coord], tasks[t].sweep.x,
                               tasks[t].sweep.y, tasks[t].sweep.dt) : TaskCell(t, rnd)

\* The world after one call of World::SetParticle, which created the tile
\* (0, 0) and put sand on its floor.
LiveInit ==
    /\ m_Chunks = WorldSetParticle(<<>>, 0, CHUNK_SIZE - 1, Particle(1))
    /\ m_PlayerPosition = <<0, 0>>
    /\ m_ChunkMutex = "free"
    /\ drv = [pc |-> "idle", phase |-> 0, toVisit |-> {}, waiting |-> 0,
             thrown |-> FALSE]
    /\ tasks = <<>>
    /\ futures = <<>>
    /\ generated = {}
    /\ streamCreated = {}
    /\ dirtySeen = [p \in 0 .. (PHASES - 1) |-> {}]
    /\ worldFrames = 0
    /\ worldPaints = 1
    /\ unlockedLookups = {}
    /\ CvIdle
    /\ TileIdle
    /\ IoIdle
    /\ ApiIdle

\* The scheduler of the operating system lets a thread that can take a step
\* take one: the caller of World::Update and the threads of std::async.
SpecWorldLive == LiveInit /\ [][WorldNext]_vars /\ WF_vars(FrameStep)

\* C25: every call of World::Update terminates.  StreamChunks and all four
\* phases complete, and the call returns only after every submitted tile
\* update has finished; no reachable state is a deadlock on the tile-map
\* mutex.
UpdateTerminates ==
    /\ (drv.pc # "idle") ~> (drv.pc = "idle")
    /\ [](drv.pc = "idle" =>
             /\ m_ChunkMutex = "free"
             /\ \A t \in DOMAIN tasks : tasks[t].status = "done")

\* C25 witness: a call of World::Update has returned after it ran tasks in
\* two different phases.
UpdateTerminatesWitness ==
    /\ drv.pc = "idle"
    /\ worldFrames > 0
    /\ \E t \in DOMAIN tasks, u \in DOMAIN tasks :
           /\ tasks[t].phase # tasks[u].phase
           /\ tasks[t].status = "done" /\ tasks[u].status = "done"


\* ------------------------------------------ the rules, one invocation each
\* The material of the cell (x, y) of a chunk, 0 outside it.
MaterialAt(chunk, x, y) == ChunkGetParticle(chunk, x, y).materialID
\* The step is an invocation of UpdateParticle on a cell of material id: an
\* iteration of the loops of Update on the single tile.
RuleStepOn(id) ==
    /\ tileSweep # <<>>
    /\ MaterialAt(tile, tileSweep.x, tileSweep.y) = id
\* The step exchanged the oil of the cell it ran on with the water of the
\* cell below it in the column at the offset w.
OilSwappedWith(w) ==
    /\ RuleStepOn(8)
    /\ MaterialAt(tile, tileSweep.x + w, tileSweep.y + 1) = 2
    /\ MaterialAt(tile', tileSweep.x, tileSweep.y) = 2
    /\ MaterialAt(tile', tileSweep.x + w, tileSweep.y + 1) = 8

\* C26: oil floats on water.  When the oil rule exchanges an oil cell with
\* a water cell directly below or diagonally below it, the oil does not end
\* that rule invocation in a lower row than the water it exchanged with:
\* the row of the cell that holds the oil after the step is not below the
\* row of the cell that holds the water.
OilNeverSinks ==
    [][\A w \in {-1, 0, 1} :
           OilSwappedWith(w) =>
               \E oilRow \in {tileSweep.y, tileSweep.y + 1} :
                   /\ \E c \in {<<tileSweep.x, tileSweep.y>>,
                                <<tileSweep.x + w, tileSweep.y + 1>>} :
                          c[2] = oilRow /\ MaterialAt(tile', c[1], c[2]) = 8
                   /\ oilRow <= tileSweep.y]_vars

\* Whether the step is an invocation of the fire rule on a fire cell that
\* enters it with the given lifetime.
FireStepWithLifetime(lifetime) ==
    /\ RuleStepOn(4)
    /\ ChunkGetParticle(tile, tileSweep.x, tileSweep.y).lifetime = lifetime
\* C27: the fire rule replaces the cell in the invocation in which its
\* lifetime reaches 0.  After an invocation on a fire cell that entered with
\* lifetime 1 the cell is smoke or empty, and no other cell has changed: the
\* fire whose lifetime is 0 made no flicker move, lit nothing and spawned no
\* smoke.
FireReplacedAtZero ==
    [][FireStepWithLifetime(1) =>
           /\ MaterialAt(tile', tileSweep.x, tileSweep.y) \in {0, 9}
           /\ \A i \in DOMAIN tile.m_Grid :
                  i # FlattenIndex(tileSweep.x, tileSweep.y)
                      => tile'.m_Grid[i] = tile.m_Grid[i]]_vars

\* ------------------------------------- specification: a fire among its fuel
\* The cell of the fire and the eight cells around it.
FireCell == <<1, 1>>
Around == {c \in Cells \X Cells : Chebyshev(c, FireCell) = 1}
\* What the cells around the fire are set to: wood and oil, and smoke, which
\* does not burn.
FuelParticles == {Particle(5), Particle(8), Particle(9)}
\* The tiles n calls of SetParticle around the cell of the fire can leave.
RECURSIVE FuelTiles(_)
FuelTiles(n) ==
    IF n = 0 THEN {NewChunk(<<0, 0>>)}
    ELSE FuelTiles(n - 1)
             \cup {ChunkSetParticle(t, c[1], c[2], p) :
                      t \in FuelTiles(n - 1), c \in Around, p \in FuelParticles}
\* The fire is set after ClearDirty on the tile of the fuel: the dirty rect
\* is the one the SetParticle of the fire left.
FireAmong(t) ==
    ChunkSetParticle(ChunkClearDirty(t), FireCell[1], FireCell[2],
                     ParticleWithLifetime(4, 2))

IgniteInit ==
    /\ \E t \in FuelTiles(MaxFuel) :
           /\ tile = FireAmong(t)
           /\ tileAtClear = t.m_Grid
    /\ tileSweep = <<>>
    /\ tileFrames = 0
    /\ tileCalls = 0
    /\ tileAtCall = tile
    /\ tileMove = <<>>
    /\ tileLoaded = (tile.m_DirtyRect = Rect(0, 0, CHUNK_SIZE, CHUNK_SIZE))
    /\ tileLast = "set"
    /\ tileMarked = {FireCell}
    /\ scenario = IF OnlyMaterials(tile.m_Grid, {0, 4, 5}) THEN "firewood" ELSE "other"
    /\ CvIdle
    /\ WorldIdle
    /\ IoIdle
    /\ ApiIdle

SpecIgnite == IgniteInit /\ [][RuleNext]_vars

\* The cells that held something other than fire before the step and hold
\* fire after it.
IgnitedCells ==
    {c \in Cells \X Cells :
        /\ MaterialAt(tile, c[1], c[2]) \notin {0, 4}
        /\ MaterialAt(tile', c[1], c[2]) = 4}
\* C28: one invocation of the fire rule replaces at most 2 neighbouring
\* cells with fire, whatever the neighbourhood and the samples, and a cell it
\* replaces is next to the fire, is not smoke and has flammability > 0.  An
\* empty cell becomes fire only by the move of the fire itself, which leaves
\* the cell of the invocation empty.
FireIgnitesAtMostTwo ==
    [][RuleStepOn(4) =>
           /\ Cardinality(IgnitedCells) <= 2
           /\ \A c \in IgnitedCells :
                  /\ Chebyshev(c, <<tileSweep.x, tileSweep.y>>) = 1
                  /\ MaterialAt(tile, c[1], c[2]) # 9
                  /\ GetMaterial(MaterialAt(tile, c[1], c[2])).flammability > 0
           /\ \A c \in Cells \X Cells :
                  (MaterialAt(tile, c[1], c[2]) = 0 /\ MaterialAt(tile', c[1], c[2]) = 4)
                      => /\ MaterialAt(tile', tileSweep.x, tileSweep.y) = 0
                         /\ ChunkGetParticle(tile', c[1], c[2]).lifetime + 1
                                = ChunkGetParticle(tile, tileSweep.x, tileSweep.y).lifetime]_vars
\* The fire at FireCell had three wood cells in the row below it when Update
\* was called; Update has returned, two of the three burn and the third is
\* still wood.
FireIgnitesAtMostTwoWitness ==
    /\ tileSweep = <<>>
    /\ tileFrames = 1
    /\ ChunkGetParticle(tileAtCall, FireCell[1], FireCell[2]) = ParticleWithLifetime(4, 2)
    /\ \A dx \in {-1, 0, 1} :
           MaterialAt(tileAtCall, FireCell[1] + dx, FireCell[2] + 1) = 5
    /\ Cardinality({dx \in {-1, 0, 1} :
                       MaterialAt(tile, FireCell[1] + dx, FireCell[2] + 1) = 4}) = 2
    /\ Cardinality({dx \in {-1, 0, 1} :
                       MaterialAt(tile, FireCell[1] + dx, FireCell[2] + 1) = 5}) = 1

\* C29: a fire cell created by ignition has a lifetime of at least 100 and
\* at most 250, for every sample of dist(gen): 100 plus the part the sample
\* gives, plus 100 for wood or 50 for oil, without a wrap of the unsigned
\* 32-bit value below 100.
IgnitionLifetimeInRange ==
    [][RuleStepOn(4) =>
           \A c \in IgnitedCells :
               /\ ChunkGetParticle(tile', c[1], c[2]).lifetime >= 100
               /\ ChunkGetParticle(tile', c[1], c[2]).lifetime <= 250]_vars

\* --------------------------------- specification: a grain over its supports
\* The materials of the solid-powder rule: sand, stone and wood.
PowderIds == {1, 3, 5}
\* The three cells below the cell (x, y).
BelowCells(x, y) == {<<x - 1, y + 1>>, <<x, y + 1>>, <<x + 1, y + 1>>}
\* The tile after SetParticle of stone on each cell of the set, in the
\* order of the cells; the calls on cells outside the tile change nothing.
RECURSIVE WithStones(_, _)
WithStones(chunk, cells) ==
    IF cells = {} THEN chunk
    ELSE LET c == CHOOSE d \in cells : \A e \in cells : d[1] <= e[1]
         IN  WithStones(ChunkSetParticle(chunk, c[1], c[2], Particle(3)), cells \ {c})
\* A grain of a powder set on any cell, then stones on any of the three
\* cells below it.
GrainTiles ==
    UNION {{WithStones(ChunkSetParticle(NewChunk(<<0, 0>>), g[1], g[2], Particle(g[3])),
                       st) : st \in SUBSET BelowCells(g[1], g[2])} :
              g \in Cells \X Cells \X PowderIds}

PowderInit ==
    /\ tile \in GrainTiles
    /\ tileSweep = <<>>
    /\ tileFrames = 0
    /\ tileCalls = 0
    /\ tileAtCall = tile
    /\ tileMove = <<>>
    /\ tileLoaded = (tile.m_DirtyRect = Rect(0, 0, CHUNK_SIZE, CHUNK_SIZE))
    /\ tileLast = "set"
    /\ tileMarked = {c \in Cells \X Cells :
                         ~ParticleIsEmpty(ChunkGetParticle(tile, c[1], c[2]))}
    /\ tileAtClear = NewChunk(<<0, 0>>).m_Grid
    /\ scenario = IF OnlyMaterials(tile.m_Grid, {0, 4, 5}) THEN "firewood" ELSE "other"
    /\ CvIdle
    /\ WorldIdle
    /\ IoIdle
    /\ ApiIdle

SpecPowder == PowderInit /\ [][RuleNext]_vars

\* Whether the step is an invocation of the solid-powder rule.
PowderStep == tileSweep # <<>> /\ MaterialAt(tile, tileSweep.x, tileSweep.y) \in PowderIds
\* Where the rule takes the grain at (x, y) when its coin is the first
\* value of rnd: straight down if that cell is in the tile and empty; else
\* the first empty of the two diagonals below, the left one first for a
\* positive coin and the right one first otherwise; else nowhere.
PowderGoal(x, y, rnd) ==
    LET first == IF Draw(rnd, 1) > 0 THEN x - 1 ELSE x + 1
    IN  IF IsEmpty(tile, x, y + 1) THEN <<x, y + 1>>
        ELSE IF IsEmpty(tile, first, y + 1) THEN <<first, y + 1>>
        ELSE IF IsEmpty(tile, 2 * x - first, y + 1) THEN <<2 * x - first, y + 1>>
        ELSE <<x, y>>
\* Whether the step took the grain at (x, y) to the cell d and nothing else
\* moved: d is (x, y) and every cell holds the material it held, or d is an
\* empty cell of the row y + 1 that now holds the grain as it was, (x, y) is
\* empty and every other cell is as it was.
PowderLandsAt(x, y, d) ==
    IF d = <<x, y>>
    THEN \A c \in Cells \X Cells : MaterialAt(tile', c[1], c[2]) = MaterialAt(tile, c[1], c[2])
    ELSE /\ d[2] = y + 1
         /\ MaterialAt(tile, d[1], d[2]) = 0
         /\ ChunkGetParticle(tile', d[1], d[2]) = ChunkGetParticle(tile, x, y)
         /\ MaterialAt(tile', x, y) = 0
         /\ \A c \in (Cells \X Cells) \ {d, <<x, y>>} :
                ChunkGetParticle(tile', c[1], c[2]) = ChunkGetParticle(tile, c[1], c[2])
\* C30: the solid-powder rule (sand, stone, wood).  Whatever samples the
\* invocation obtained, the grain moves straight down when the cell below
\* is in the tile and empty; otherwise to an empty diagonal-below cell,
\* tried left then right or right then left as the coin says; otherwise it
\* stays.  It lands in no row but y + 1 and on no cell that was not empty.
PowderFalls ==
    [][PowderStep =>
           \A rnd \in RndSeqs(tile, tileSweep.x, tileSweep.y, tileSweep.dt) :
               TileUpdateCell(rnd)
                   => PowderLandsAt(tileSweep.x, tileSweep.y,
                                    PowderGoal(tileSweep.x, tileSweep.y, rnd))]_vars
\* Update was called on a tile with sand at (1, 1) over stones at (0, 2) and
\* (1, 2); the invocation on the sand has returned and the sweep has come
\* to the row of the stones: the sand lies at (2, 2), the one cell below it
\* that was empty, and the stones lie where they lay.
PowderFallsWitness ==
    /\ tileSweep # <<>>
    /\ tileSweep.y = 2
    /\ MaterialAt(tileAtCall, 1, 1) = 1
    /\ MaterialAt(tileAtCall, 0, 2) = 3
    /\ MaterialAt(tileAtCall, 1, 2) = 3
    /\ MaterialAt(tileAtCall, 2, 2) = 0
    /\ MaterialAt(tile, 1, 1) = 0
    /\ MaterialAt(tile, 0, 2) = 3
    /\ MaterialAt(tile, 1, 2) = 3
    /\ MaterialAt(tile, 2, 2) = 1

\* The materials of the liquid rules: water, acid and oil.
LiquidIds == {2, 7, 8}
\* Whether the step moved the liquid of the invocation sideways, from
\* (tileSweep.x, tileSweep.y) to the cell (d, tileSweep.y) that was empty.
SpreadTo(d) ==
    /\ tileSweep # <<>>
    /\ MaterialAt(tile, tileSweep.x, tileSweep.y) \in LiquidIds
    /\ d # tileSweep.x
    /\ MaterialAt(tile, d, tileSweep.y) = 0
    /\ MaterialAt(tile', tileSweep.x, tileSweep.y) = 0
    /\ MaterialAt(tile', d, tileSweep.y) = MaterialAt(tile, tileSweep.x, tileSweep.y)
\* C31: the lateral spread of a liquid advances over empty cells only.  When
\* an invocation moves a water, acid or oil cell sideways in its row, every
\* cell strictly between the source and the destination was empty: the
\* liquid does not jump over a non-empty cell.
SpreadOverEmptyOnly ==
    [][\A d \in Cells :
           SpreadTo(d) =>
               \A b \in Cells :
                   (Min(d, tileSweep.x) < b /\ b < Max(d, tileSweep.x))
                       => MaterialAt(tile, b, tileSweep.y) = 0]_vars

\* ------------------------------ specification: the movement primitive alone
\* CellularAutomata::MoveParticle(tile, srcX, srcY, destX, destY), called on
\* the tile outside of Update; tileMove records the call: its arguments, the
\* Chunk it was made on and what it returned.
TileMove(srcX, srcY, destX, destY) ==
    /\ tileSweep = <<>>
    /\ tile' = MoveParticle(tile, srcX, srcY, destX, destY).chunk
    /\ tileMove' = [src |-> <<srcX, srcY>>, dest |-> <<destX, destY>>, before |-> tile,
                    ok |-> MoveParticle(tile, srcX, srcY, destX, destY).ok]
    /\ tileLast' = "move"
    /\ tileMarked' = IF tileMove'.ok
                     THEN tileMarked \cup {<<srcX, srcY>>, <<destX, destY>>}
                     ELSE tileMarked
    /\ tileCalls' = tileCalls + 1
    /\ scenario' = "other"
    /\ UNCHANGED <<tileSweep, tileFrames, tileAtCall, tileLoaded, tileAtClear,
                   cvVars, worldVars, ioVars, apiVars>>

\* The tiles of one or two cells of sand, with the dirty rect as the
\* SetParticle calls left it, cleared, or covering the tile.
MoveInit ==
    /\ tile \in UNION {StartRects(t) : t \in {u \in OneCellTiles \cup TwoCellTiles :
                                                  OnlyMaterials(u.m_Grid, {0, 1})}}
    /\ tileSweep = <<>>
    /\ tileFrames = 0
    /\ tileCalls = 0
    /\ tileAtCall = tile
    /\ tileMove = <<>>
    /\ tileLoaded = (tile.m_DirtyRect = Rect(0, 0, CHUNK_SIZE, CHUNK_SIZE))
    /\ tileLast = "new"
    /\ tileMarked = IF RectIsEmpty(tile.m_DirtyRect) THEN {}
                    ELSE {c \in Cells \X Cells :
                             ~ParticleIsEmpty(ChunkGetParticle(tile, c[1], c[2]))}
    /\ tileAtClear = IF RectIsEmpty(tile.m_DirtyRect) THEN tile.m_Grid
                     ELSE NewChunk(<<0, 0>>).m_Grid
    /\ scenario = "other"
    /\ CvIdle
    /\ WorldIdle
    /\ IoIdle
    /\ ApiIdle

MoveNext ==
    /\ tileCalls < MaxMoves
    /\ \E srcX \in ApiCoords, srcY \in ApiCoords, destX \in ApiCoords, destY \in ApiCoords :
           TileMove(srcX, srcY, destX, destY)

SpecMove == MoveInit /\ [][MoveNext]_vars

\* Whether MoveParticle has to succeed on the chunk: source and destination
\* inside the tile, the destination empty.
CanMove(chunk, src, dest) ==
    /\ ChunkIsInBounds(src[1], src[2])
    /\ ChunkIsInBounds(dest[1], dest[2])
    /\ MaterialAt(chunk, dest[1], dest[2]) = 0
\* C32: MoveParticle succeeds exactly when source and destination are both
\* inside the tile and the destination is empty.  On success the destination
\* holds the cell the source held, the source is empty, every other cell is
\* as it was and both cells are inside the dirty rect; on failure it returns
\* false and leaves every cell and the dirty rect as they were.
MoveSucceedsExactly ==
    tileLast = "move" =>
        /\ tileMove.ok <=> CanMove(tileMove.before, tileMove.src, tileMove.dest)
        /\ tileMove.ok =>
               /\ ChunkGetParticle(tile, tileMove.dest[1], tileMove.dest[2])
                      = ChunkGetParticle(tileMove.before, tileMove.src[1], tileMove.src[2])
               /\ ChunkGetParticle(tile, tileMove.src[1], tileMove.src[2]) = EmptyParticle
               /\ \A c \in (Cells \X Cells) \ {tileMove.src, tileMove.dest} :
                      ChunkGetParticle(tile, c[1], c[2])
                          = ChunkGetParticle(tileMove.before, c[1], c[2])
               /\ RectContains(tile.m_DirtyRect, tileMove.src[1], tileMove.src[2])
               /\ RectContains(tile.m_DirtyRect, tileMove.dest[1], tileMove.dest[2])
        /\ ~tileMove.ok => tile = tileMove.before
\* MoveParticle has returned true on a tile that was clean: the sand of the
\* source lies on the destination, which is another cell, the source is
\* empty, and the dirty rect holds the two cells.
MoveSucceedsExactlyWitness ==
    /\ tileLast = "move"
    /\ tileMove.ok
    /\ tileMove.src # tileMove.dest
    /\ RectIsEmpty(tileMove.before.m_DirtyRect)
    /\ MaterialAt(tileMove.before, tileMove.src[1], tileMove.src[2]) = 1
    /\ MaterialAt(tile, tileMove.src[1], tileMove.src[2]) = 0
    /\ MaterialAt(tile, tileMove.dest[1], tileMove.dest[2]) = 1
    /\ RectContains(tile.m_DirtyRect, tileMove.src[1], tileMove.src[2])
    /\ RectContains(tile.m_DirtyRect, tileMove.dest[1], tileMove.dest[2])

\* The cells of the chunk that are not empty.
Occupied(chunk) ==
    {c \in Cells \X Cells : ~ParticleIsEmpty(ChunkGetParticle(chunk, c[1], c[2]))}
\* The materials whose rules let a particle fall: the powders, the liquids,
\* gunpowder and salt.
FallingIds == {1, 2, 3, 5, 6, 7, 8, 10}
\* C33: within one sweep of Update no particle is handed to the rules more
\* than once, so that a falling particle descends at most one row per frame.
\* When Update was called on a tile whose one particle is of a falling
\* material and has returned, the particle lies in the row it lay in or in
\* the next one.
OneRowPerFrame ==
    (/\ tileSweep = <<>>
     /\ tileLast = "update"
     /\ Cardinality(Occupied(tileAtCall)) = 1
     /\ \A c \in Occupied(tileAtCall) : MaterialAt(tileAtCall, c[1], c[2]) \in FallingIds)
        => \A c \in Occupied(tileAtCall), d \in Occupied(tile) : d[2] <= c[2] + 1

\* ------------------------------------------------- the world, streaming
\* C34: StreamChunks computes the tile of the observer by floor division of
\* the position, negative positions with a fraction included.  When it has
\* returned, the coordinate it used is floor(p / N) on each axis; and when
\* it ran on a world with no tile, the resident tiles are the square of
\* radius R around that tile.
StreamUsesFloor ==
    StreamReturned =>
        /\ PlayerChunkCoord(m_PlayerPosition) = ObserverTile
        /\ (worldFrames = 1 /\ worldPaints = 0)
               => DOMAIN m_Chunks = LoadSquare(ObserverTile)

\* ------------------------------- specification: the world, a far observer
\* A position three tiles to the left of the origin: streaming around it
\* creates the tiles -6 .. 0 of the row 0.
FarPositions == {<<-3 * CHUNK_SIZE * POS_SCALE, 0>>}

StreamNext ==
    \/ WorldNext
    \/ \E pos \in FarPositions : SetPlayerPosition(pos)

SpecStream == WorldInit /\ [][StreamNext]_vars

\* Whether the step is a call of World::Update, of which StreamChunks is
\* the first part.
StreamStep == drv.pc = "idle" /\ drv'.pc = "lock"
\* C35: the hysteresis of eviction.  StreamChunks destroys a resident tile
\* only if its Chebyshev distance from the tile of the observer exceeds
\* R + 2: every tile resident before the call at a distance of at most
\* R + 2 is resident after it, with the cells and the dirty rect it had.
EvictionHysteresis ==
    [][StreamStep =>
           \A c \in DOMAIN m_Chunks :
               Chebyshev(c, ObserverTile) <= m_ChunkLoadRadius + 2
                   => c \in DOMAIN m_Chunks' /\ m_Chunks'[c] = m_Chunks[c]]_vars

\* ------------------- specification: the World API during World::Update
\* The threads that call the World API beside the caller of World::Update.
Threads == 1 .. MaxThreads
\* Their calls: SetParticle and DestroyChunk on the cell (0, 0) of the tile
\* (0, 0), and StreamChunks as a second World::Update starts with it.
ThreadOps == {"SetParticle", "DestroyChunk", "StreamChunks"}
\* The position the observer moves to: six tiles right of the origin, so
\* that the tile (0, 0) is at a distance above R + 2.
AwayPosition == <<(m_ChunkLoadRadius + 3) * CHUNK_SIZE * POS_SCALE, 0>>
\* The coordinates UpdateChunksAroundPlayer hands to the Chunk constructor,
\* in the order of its loops: y outside, x inside.
StreamCreates(chunks, pos) ==
    LET n == 2 * m_ChunkLoadRadius + 1
        center == PlayerChunkCoord(pos)
        square == [k \in 1 .. (n * n) |->
                      <<center[1] + ((k - 1) % n) - m_ChunkLoadRadius,
                        center[2] + ((k - 1) \div n) - m_ChunkLoadRadius>>]
        Missing(c) == c \notin DOMAIN chunks
    IN  SelectSeq(square, Missing)

\* The world after one call of World::SetParticle, which created the tile
\* (0, 0) and put sand on its floor; no thread is in a call.
ThreadsInit ==
    /\ m_Chunks = WorldSetParticle(<<>>, 0, CHUNK_SIZE - 1, Particle(1))
    /\ made = <<(<<0, 0>>)>>
    /\ callers = [c \in Threads |-> NoCall]
    /\ m_PlayerPosition = <<0, 0>>
    /\ m_ChunkMutex = "free"
    /\ drv = [pc |-> "idle", phase |-> 0, toVisit |-> {}, waiting |-> 0,
             thrown |-> FALSE]
    /\ tasks = <<>>
    /\ futures = <<>>
    /\ generated = {}
    /\ streamCreated = {}
    /\ dirtySeen = [p \in 0 .. (PHASES - 1) |-> {}]
    /\ worldFrames = 0
    /\ worldPaints = 1
    /\ unlockedLookups = {}
    /\ CvIdle
    /\ TileIdle
    /\ IoIdle

\* World::Update is called while other threads are in the World API: the
\* chunks its StreamChunks creates are constructed.
ThreadsUpdateCall ==
    /\ StreamAndEnter
    /\ made' = made \o StreamCreates(m_Chunks, m_PlayerPosition)
    /\ UNCHANGED callers

\* A faulty ApiDestroyChunk: the erase runs without the lock_guard.
ApiDestroyChunkNoLock(c) ==
    /\ callers[c].pc = "DestroyChunk"
    /\ m_Chunks' = WorldDestroyChunk(m_Chunks, CallChunkCoord(c))
    /\ generated' = generated \ {CallChunkCoord(c)}
    /\ callers' = [callers EXCEPT ![c].pc = "done"]
    /\ UNCHANGED <<made, m_PlayerPosition, m_ChunkMutex, drv, tasks, futures,
                   streamCreated, dirtySeen, worldFrames, worldPaints,
                   unlockedLookups, cvVars, tileVars, ioVars>>
\* World::DestroyChunk, under its lock_guard: the chunk at the coordinate
\* is erased, and with its unique_ptr freed.
ApiDestroyChunk(c) ==
    /\ callers[c].pc = "DestroyChunk"
    /\ m_ChunkMutex = "free"
    /\ m_Chunks' = WorldDestroyChunk(m_Chunks, CallChunkCoord(c))
    /\ generated' = generated \ {CallChunkCoord(c)}
    /\ callers' = [callers EXCEPT ![c].pc = "done"]
    /\ UNCHANGED <<made, m_PlayerPosition, m_ChunkMutex, drv, tasks, futures,
                   streamCreated, dirtySeen, worldFrames, worldPaints,
                   unlockedLookups, cvVars, tileVars, ioVars>>

\* World::StreamChunks on a thread, up to the end of the block that fills
\* chunksToRemove: the GetChunk and CreateChunk of UpdateChunksAroundPlayer
\* and the block each wait for the mutex, which a call of
\* UpdateChunksMultiThreaded holds for a whole phase.
ApiStreamScan(c) ==
    /\ callers[c].pc = "StreamChunks"
    /\ m_ChunkMutex = "free"
    /\ m_Chunks' = UpdateChunksAroundPlayer(m_Chunks, m_PlayerPosition)
    /\ made' = made \o StreamCreates(m_Chunks, m_PlayerPosition)
    /\ LET chunksToRemove ==
               {coord \in DOMAIN m_Chunks' :
                    TooFar(coord, PlayerChunkCoord(m_PlayerPosition))}
       IN  callers' = [callers EXCEPT
               ![c].chunksToRemove = chunksToRemove,
               ![c].pc = IF chunksToRemove = {} THEN "done" ELSE "remove"]
    /\ UNCHANGED <<worldRest, unlockedLookups, cvVars, tileVars, ioVars>>

\* Whether coord comes before other in the order the loop over
\* chunksToRemove is followed in: by rows, and in a row by columns.
RemovedBefore(coord, other) ==
    coord[2] < other[2] \/ (coord[2] = other[2] /\ coord[1] < other[1])
\* An iteration of `for (coord : chunksToRemove) DestroyChunk(coord)`, which
\* takes the mutex for the one erase.
ApiStreamDestroy(c) ==
    /\ callers[c].pc = "remove"
    /\ m_ChunkMutex = "free"
    /\ LET coord == CHOOSE first \in callers[c].chunksToRemove :
                        \A other \in callers[c].chunksToRemove \ {first} :
                            RemovedBefore(first, other)
       IN  /\ m_Chunks' = WorldDestroyChunk(m_Chunks, coord)
           /\ generated' = generated \ {coord}
           /\ callers' = [callers EXCEPT
                  ![c].chunksToRemove = callers[c].chunksToRemove \ {coord},
                  ![c].pc = IF callers[c].chunksToRemove = {coord}
                            THEN "done" ELSE "remove"]
    /\ UNCHANGED <<made, m_PlayerPosition, m_ChunkMutex, drv, tasks, futures,
                   streamCreated, dirtySeen, worldFrames, worldPaints,
                   unlockedLookups, cvVars, tileVars, ioVars>>

ThreadsNext ==
    \/ SetPlayerPosition(AwayPosition)
    \/ ThreadsUpdateCall
    \/ PhaseLock
    \/ \E coord \in DOMAIN m_Chunks : PhaseSubmit(coord)
    \/ PhaseScanEnd
    \/ PhaseWait
    \/ PhaseEnd
    \/ \E t \in DOMAIN tasks, dt \in FrameDts : TaskStart(t, dt)
    \/ \E t \in {u \in DOMAIN tasks : tasks[u].status = "running"} :
           \E rnd \in RndSeqs(m_Chunks[tasks[t].coord], tasks[t].sweep.x,
                               tasks[t].sweep.y, tasks[t].sweep.dt) : TaskCell(t, rnd)
    \/ \E c \in Threads, op \in ThreadOps : ApiBegin(c, op, <<0, 0>>)
    \/ \E c \in Threads : ApiGetChunk(c)
    \/ \E c \in Threads : ApiCreateChunk(c)
    \/ \E c \in Threads : ApiUse(c)
    \/ \E c \in Threads : ApiDestroyChunk(c)
    \/ \E c \in Threads : ApiStreamScan(c)
    \/ \E c \in Threads : ApiStreamDestroy(c)

SpecThreads == ThreadsInit /\ [][ThreadsNext]_vars

\* C36: no tile is removed from the map while a worker executes its
\* update.  From the submission of a tile's update until the join of its
\* phase the tile is resident, whatever DestroyChunk and StreamChunks other
\* threads have called.
TaskTilesResident ==
    \A t \in DOMAIN tasks :
        (tasks[t].status # "done"
             \/ (tasks[t].phase = drv.phase /\ drv.pc \in {"scan", "wait"}))
            => tasks[t].coord \in DOMAIN m_Chunks
\* A task is inside Chunk::Update on a tile while a thread that called
\* DestroyChunk for the tile waits for the mutex.
TaskTilesResidentWitness ==
    \E t \in DOMAIN tasks, c \in Threads :
        /\ tasks[t].status = "running"
        /\ callers[c].pc = "DestroyChunk"
        /\ CallChunkCoord(c) = tasks[t].coord

\* The thread c makes the write of its SetParticle in the step.
WritesCell(c) ==
    /\ callers[c].op = "SetParticle"
    /\ callers[c].pc = "use"
    /\ callers'[c].pc = "done"
\* C40: a SetParticle issued from another thread while World::Update runs
\* never writes the cells or the dirty rect of a tile at the same time as a
\* worker updates that tile, and never writes into a tile that StreamChunks
\* has destroyed: at its write the chunk of its pointer is owned by the map
\* and no task is inside Chunk::Update on it.
SetParticleExcludesUpdate ==
    [][\A c \in Threads :
           WritesCell(c) =>
               /\ PtrAlive(callers[c].chunk)
               /\ ~Updating(made[callers[c].chunk])]_vars
\* The part of C40 on destroyed tiles alone.
SetParticleIntoResidentTile ==
    [][\A c \in Threads : WritesCell(c) => PtrAlive(callers[c].chunk)]_vars
\* The part of C40 on workers alone.
SetParticleOutsideUpdate ==
    [][\A c \in Threads :
           WritesCell(c) => ~Updating(made[callers[c].chunk])]_vars

\* --------------------------- specification: loading a directory of copies
\* The coordinates in the headers of the files a directory holds under the
\* name chunk_1_0.bin: that of the name, and those of the tiles (0, 0) and
\* (2, 0), whose files were copied or renamed to it.
HeaderCoords == {<<0, 0>>, <<1, 0>>, <<2, 0>>}

RenamedInit ==
    /\ directory \in
           {[c \in FileCoords |-> IF c = <<0, 0>> THEN f ELSE g] :
               f \in SavedFiles(<<0, 0>>),
               g \in UNION {SavedFiles(h) : h \in HeaderCoords}}
    /\ file = "none"
    /\ loaded = <<>>
    /\ WorldIdle
    /\ CvIdle
    /\ TileIdle
    /\ ApiIdle

SpecRenamed == RenamedInit /\ [][LoadNext]_vars

\* C37: for every resident tile, the coordinate the tile stores equals the
\* key it is stored under in the map, after any sequence of CreateChunk,
\* SetParticle, StreamChunks and World::Load, the load of a file whose name
\* gives one coordinate and whose header gives another included.
StoredCoordIsKey ==
    \A c \in DOMAIN m_Chunks : m_Chunks[c].m_ChunkCoord = c

\* ------------------------------------------ the velocity after a rule
\* The step is an invocation of UpdateParticle that left the cell it ran
\* on without a particle.
Vacated ==
    /\ tileSweep # <<>>
    /\ MaterialAt(tile, tileSweep.x, tileSweep.y) # 0
    /\ MaterialAt(tile', tileSweep.x, tileSweep.y) = 0
\* The step brought the particle of the cell it ran on to the cell d, which
\* was empty.
MovedTo(d) ==
    /\ Vacated
    /\ MaterialAt(tile, d[1], d[2]) = 0
    /\ MaterialAt(tile', d[1], d[2]) = MaterialAt(tile, tileSweep.x, tileSweep.y)
\* C38: the velocity update that follows a rule is applied to the particle
\* the rule acted on, never to an empty cell.  Every cell an invocation
\* vacates equals the default empty cell after it, and a particle it moved
\* has the vertical velocity that damping and gravity give it.
VelocityFollowsParticle ==
    [][Vacated =>
           /\ ChunkGetParticle(tile', tileSweep.x, tileSweep.y) = EmptyParticle
           /\ \A d \in Cells \X Cells :
                  MovedTo(d) =>
                      ChunkGetParticle(tile', d[1], d[2]).velocityY =
                          UpdateVelocity(ChunkGetParticle(tile, tileSweep.x, tileSweep.y),
                                         tileSweep.dt).velocityY]_vars
\* The part of C38 on the vacated cell alone.
VacatedCellIsDefault ==
    [][Vacated =>
           ChunkGetParticle(tile', tileSweep.x, tileSweep.y) = EmptyParticle]_vars

\* --------------------------- specification: the dirty rect, with Load
\* The file Load reads: that of a saved tile with sand in its cell (1, 1).
BoxFiles == {ChunkSave(ChunkSetParticle(NewChunk(<<0, 0>>), 1, 1, Particle(1)))}
\* tile.Load(filename) on a file that opens: the cells are read and the
\* dirty rect is set to the whole tile.
TileLoad(f) ==
    /\ tileSweep = <<>>
    /\ ChunkLoadReturns(f)
    /\ tile' = ChunkLoad(tile, f)
    /\ tileCalls' = tileCalls + 1
    /\ tileLast' = "load"
    /\ scenario' = "other"
    /\ tileMarked' = {}
    /\ tileLoaded' = TRUE
    /\ UNCHANGED <<tileSweep, tileFrames, tileAtCall, tileMove, tileAtClear,
                   cvVars, worldVars, ioVars, apiVars>>

BoxNext ==
    \/ /\ tileCalls < MaxDirtyCalls
       /\ \E x \in ApiCoords, y \in ApiCoords : TileSetParticle(x, y, 1)
    \/ /\ tileCalls < MaxDirtyCalls
       /\ \E x \in ApiCoords, y \in ApiCoords : TileMarkDirty(x, y)
    \/ /\ tileCalls < MaxDirtyCalls
       /\ TileClearDirty
    \/ /\ tileCalls < MaxDirtyCalls
       /\ \E f \in BoxFiles : TileLoad(f)
    \/ /\ tileFrames < MaxRuleFrames
       /\ \E dt \in FrameDts : TileUpdateCall(dt)
    \/ /\ tileSweep # <<>>
       /\ \E rnd \in RndSeqs(tile, tileSweep.x, tileSweep.y, tileSweep.dt) :
              TileUpdateCell(rnd)

SpecBox == TileInit /\ [][BoxNext]_vars

\* The smallest rectangle that covers the cells of a non-empty set.
BoundingRect(cells) ==
    LET left == CHOOSE x \in {c[1] : c \in cells} : \A c \in cells : x <= c[1]
        right == CHOOSE x \in {c[1] : c \in cells} : \A c \in cells : c[1] <= x
        top == CHOOSE y \in {c[2] : c \in cells} : \A c \in cells : y <= c[2]
        bottom == CHOOSE y \in {c[2] : c \in cells} : \A c \in cells : c[2] <= y
    IN  Rect(left, top, right - left + 1, bottom - top + 1)
\* Whether the rectangle lies inside [0, N) x [0, N).
RectInTile(r) ==
    /\ 0 <= r.x /\ r.x + r.width <= CHUNK_SIZE
    /\ 0 <= r.y /\ r.y + r.height <= CHUNK_SIZE
\* A call of SetParticle or MarkDirty at a coordinate outside the tile
\* leaves the cells and the dirty rect as they were.
OutOfBoundsIgnored ==
    \A x \in ApiCoords, y \in ApiCoords :
        ~ChunkIsInBounds(x, y) =>
            ((TileSetParticle(x, y, 1) \/ TileMarkDirty(x, y)) => tile' = tile)
=============================================================================
